---- MODULE Spec2Model ----
(***************************************************************************)
(* Capturist: capture session manager, video pipeline queue and encoder    *)
(* PTS assignment, modelled from src-tauri/src/capture/manager.rs,         *)
(* capture/models.rs, capture/runtime.rs and encoder/consumer.rs.          *)
(*                                                                         *)
(* Option<T> values are modelled as sets with at most one element:         *)
(* None is {} and Some(x) is {x}.                                          *)
(***************************************************************************)
EXTENDS Integers, Sequences, FiniteSets, TLC

VARIABLES
    \* ---- CaptureManager (capture/manager.rs) ----
    active_session,   \* Option<ActiveSession>
    handles,          \* runtime handles built by the factory, by id
    now,              \* the monotonic clock (Instant), in ticks
    poisoned,         \* the manager mutex was poisoned by a panic
    last_op,          \* the last manager operation and what it returned
    sessions_created, \* number of ActiveSession::new calls (session identity)
    running_ticks,    \* ticks the current session has spent in Running
    resumes           \* resume() calls that succeeded on the current session

mgr_vars == <<active_session, handles, now,
              poisoned, last_op, sessions_created, running_ticks, resumes>>

VARIABLES
    \* ---- AsyncVideoPipeline (capture/manager.rs, build_runtime_callbacks) ----
    chan,            \* the messages in the sync_channel, oldest first
    queued,          \* queued_frames: AtomicUsize
    dropped_frames,  \* dropped_frames: AtomicU64
    worker_error,    \* the shared error slot: the messages recorded, <<>> when None
    paused,          \* the runtime's paused flag (capture/runtime.rs)
    pauses,          \* history: calls of the runtime's pause
    surfaces,        \* surfaces that passed the paused check so far; the latest is the current frame
    discarded,       \* history: surfaces discarded because the capture was paused
    frame_counter,   \* the runtime's frame_counter
    p_pc,            \* the capture producer's position in on_frame_arrived
    p_observed,      \* the value of queued the admission gate loaded for the current frame
    p_send,          \* the result of the current frame's try_send
    p_fatal,         \* Option: the error that ended the capture
    w_pc,            \* the encoder worker's position
    w_frame,         \* the frame the worker received and is handling
    w_exit,          \* why the worker left its loop
    f_pc,            \* on_session_finished's position
    f_result,        \* what on_session_finished returned
    enqueued,        \* history: frames accepted by try_send
    encoded,         \* history: frames passed to the encoder's on_frame
    refused,         \* history: frames refused by the gate or by a full channel
    late_enqueues,   \* history: frames enqueued while the error slot was set
    on_stop_calls,   \* history: calls of the encoder's on_stop
    h_pc,            \* the runtime handle: "none", "held", "finalize" once control.stop() or
                     \* control.wait() returned and finalize_encoder runs, "consumed"
    h_via,           \* the method that consumed the handle: "none", "stop" or "wait"
    h_callbacks,     \* history: invocations of on_session_finished
    audio_finalize   \* the detached finalize_and_mux thread: "none", or "spawned" and free to run

pipe_vars == <<chan, queued, dropped_frames, worker_error, paused, pauses, surfaces, discarded,
               frame_counter,
               p_pc, p_observed, p_send, p_fatal, w_pc, w_frame, w_exit, f_pc, f_result,
               enqueued, encoded, refused, late_enqueues, on_stop_calls,
               h_pc, h_via, h_callbacks, audio_finalize>>

VARIABLES
    \* ---- FfmpegEncoderConsumer (encoder/consumer.rs) ----
    enc_config,      \* config: the EncoderConfig of the consumer, None before new()
    enc_ctx,         \* ctx: Option<EncoderContext>
    enc_state,       \* "unborn" before new(), "unbuilt" if new() failed, "open",
                     \* "failed" after on_frame returned an error, "stopped" after on_stop
    live_label,      \* VIDEO_ENCODER_LABEL (encoder/video_encoder_status.rs)
    enc_calls,       \* history: calls of on_frame
    enc_valid,       \* history: calls of on_frame with a valid frame
    enc_inits,       \* history: calls of initialize
    enc_selected,    \* history: the encoder initialize selected, None if none
    pts_log,         \* history: the frames given a PTS, in order
    enc_final        \* history: what finalize attempted and returned, None before

enc_vars == <<enc_config, enc_ctx, enc_state, live_label, enc_calls, enc_valid,
              enc_inits, enc_selected, pts_log, enc_final>>

VARIABLES
    \* ---- Region::validate_against_target (capture/models.rs) ----
    v_region,        \* the region validated
    v_target,        \* the target it is validated against
    v_checks,        \* whether the build checks integer overflow
    v_result         \* Option: what validate_against_target returned

val_vars == <<v_region, v_target, v_checks, v_result>>

VARIABLES
    \* ---- audio capture service (encoder/audio_capture/platform/windows.rs) ----
    a_pc,            \* "none", "new", "started", "failed", "muxed" or "done"
    a_config,        \* AudioCaptureConfig: the tracks asked for at start
    a_captures,      \* per track kind, Option<ActiveCapture>
    a_controller,    \* the live controller slot: Option<LiveAudioController>
    a_elapsed,       \* milliseconds since recording_started_at
    a_buffers,       \* buffers captured so far, over both tracks
    a_heard,         \* history: per track, a buffer was processed while enabled
    a_captured,      \* history: per track, the bytes captured from its first enable on
    a_files,         \* what lies at the temp, .video_only and final paths
    a_mux,           \* Option: the tracks finalize_and_mux gave to the mux stage
    a_result,        \* Option: what finalize_and_mux returned
    a_update         \* Option: what the last update_live_audio_capture returned

aud_vars == <<a_pc, a_config, a_captures, a_controller, a_elapsed, a_buffers, a_heard,
              a_captured,
              a_files, a_mux, a_result, a_update>>

VARIABLES
    \* ---- the texture references of GPU frames (capture/models.rs RawFrame) ----
    t_frames,        \* the frames captured so far, by id
    t_chan,          \* ids of the frames in the worker's channel, 0 for Stop
    t_held,          \* Option: the frame the worker received
    t_worker,        \* "running", "failed", "stopping" or "exited"
    t_pipeline,      \* input pipeline of the encoder context, "none" before
    t_stop_sent      \* the Stop message was sent

tex_vars == <<t_frames, t_chan, t_held, t_worker, t_pipeline, t_stop_sent>>

VARIABLES
    \* ---- pure functions applied to drawn inputs ----
    f_call           \* Option: the last call, its arguments and its result

fn_vars == <<f_call>>

VARIABLES
    \* ---- processing status (encoder/processing_status.rs) ----
    processing_counter,        \* PROCESSING_COUNTER
    processing_override_flag,  \* PROCESSING_OVERRIDE_FLAG
    guards,                    \* per finalizer: "none", "alive" or "dropped"
    reader                     \* a caller of is_processing and what it saw

ps_vars == <<processing_counter, processing_override_flag, guards, reader>>

VARIABLES
    \* ---- the audio services of successive sessions and the one controller slot ----
    sv_pc,           \* per service: "unborn", "new", "started", "failed" while the
                     \* consumer owns it; "detached", "stopped" on its finalize
                     \* thread; "done"
    sv_started,      \* per service: its `started` field
    sv_tracks,       \* per service and track kind: the capture exists
    live_slot        \* live_audio_controller_slot(): Option<LiveAudioController>

sl_vars == <<sv_pc, sv_started, sv_tracks, live_slot>>

vars == <<mgr_vars, pipe_vars, enc_vars, val_vars, aud_vars, tex_vars, fn_vars, ps_vars,
          sl_vars>>

\* What the operations of one component leave alone: the other components.
outside_manager == <<pipe_vars, enc_vars, val_vars, aud_vars, tex_vars, fn_vars, ps_vars,
                   sl_vars>>
outside_pipeline == <<mgr_vars, enc_vars, val_vars, aud_vars, tex_vars, fn_vars, ps_vars,
                   sl_vars>>
outside_encoder == <<mgr_vars, pipe_vars, val_vars, aud_vars, tex_vars, fn_vars, ps_vars,
                   sl_vars>>
outside_validate == <<mgr_vars, pipe_vars, enc_vars, aud_vars, tex_vars, fn_vars, ps_vars,
                   sl_vars>>
outside_audio == <<mgr_vars, pipe_vars, enc_vars, val_vars, tex_vars, fn_vars, ps_vars,
                   sl_vars>>
outside_texture == <<mgr_vars, pipe_vars, enc_vars, val_vars, aud_vars, fn_vars, ps_vars,
                   sl_vars>>
outside_functions == <<mgr_vars, pipe_vars, enc_vars, val_vars, aud_vars, tex_vars, ps_vars,
                   sl_vars>>
outside_processing == <<mgr_vars, pipe_vars, enc_vars, val_vars, aud_vars, tex_vars, fn_vars,
                   sl_vars>>
outside_slot == <<mgr_vars, pipe_vars, enc_vars, val_vars, aud_vars, tex_vars, fn_vars, ps_vars>>

None == {}
Some(x) == {x}
The(opt) == CHOOSE x \in opt : TRUE

\* ------------------------------------------------------------------ bounds
MaxTime == 4
TicksPerMs == 2
MaxSessions == 2
MaxResumes == 1
MaxFrames == 7
MaxEncoded == 4
MaxStamp == 3
WordBits == 11

\* ------------------------------------------------------- program constants
MaxFps == 120
TargetWidth == 1920
TargetHeight == 1080
MockTargetId == 1
MissingTargetId == 999
VIDEO_PIPELINE_QUEUE_CAPACITY == 6
HundredNsPerMs == 10000

U32Modulus == 2 ^ WordBits
U32Max == U32Modulus - 1

\* --------------------------------------------------------- CaptureState
CaptureState == {"Idle", "Running", "Paused", "Stopped"}

\* A variant of can_pause that lets every session be paused.
can_pause_always(state) == TRUE

can_pause(state) == state = "Running"

can_resume_accepts_stopped(state) == state \in {"Paused", "Stopped"}

can_resume(state) == state = "Paused"

can_stop(state) == state \in {"Running", "Paused"}

\* ---------------------------------------------------------------- Region
\* The provider's targets (the single monitor of the manager tests).
ProviderTargets == {[id |-> MockTargetId, width |-> TargetWidth, height |-> TargetHeight]}

Region(x, y, w, h) == [x |-> x, y |-> y, width |-> w, height |-> h]

\* u32 addition. On overflow the build decides: with overflow checks (debug
\* profile) the addition panics, without them (release profile) it wraps.
U32Add(a, b, overflow_checks) ==
    IF a + b >= U32Modulus
    THEN (IF overflow_checks THEN [panic |-> TRUE, value |-> 0]
                             ELSE [panic |-> FALSE, value |-> (a + b) % U32Modulus])
    ELSE [panic |-> FALSE, value |-> a + b]

validate_against_target(region, target, overflow_checks) ==
    IF region.width = 0 \/ region.height = 0
    THEN [kind |-> "RegionVacia"]
    ELSE LET sx == U32Add(region.x, region.width, overflow_checks) IN
         IF sx.panic THEN [kind |-> "Panic"]
         ELSE IF sx.value > target.width
         THEN [kind |-> "RegionExcedeAncho", x |-> region.x, width |-> region.width,
               target_width |-> target.width]
         ELSE LET sy == U32Add(region.y, region.height, overflow_checks) IN
              IF sy.panic THEN [kind |-> "Panic"]
              ELSE IF sy.value > target.height
              THEN [kind |-> "RegionExcedeAlto", y |-> region.y, height |-> region.height,
                    target_height |-> target.height]
              ELSE [kind |-> "Ok"]

\* ---------------------------------------------------------- ActiveSession
as_millis(ticks) == ticks \div TicksPerMs

ActiveSession_new(sid, rid) ==
    [sid |-> sid,
     state |-> "Running",
     elapsed_before_pause_ms |-> 0,
     last_resume_at |-> Some(now),
     last_error |-> None,
     runtime |-> Some(rid)]

accumulate_elapsed_overwrites(s) ==
    IF s.last_resume_at # None
    THEN [s EXCEPT !.elapsed_before_pause_ms = as_millis(now - The(s.last_resume_at)),
                   !.last_resume_at = None]
    ELSE s

accumulate_elapsed_keeps_instant(s) ==
    IF s.last_resume_at # None
    THEN [s EXCEPT !.elapsed_before_pause_ms = @ + as_millis(now - The(s.last_resume_at))]
    ELSE s

accumulate_elapsed(s) ==
    IF s.last_resume_at # None
    THEN [s EXCEPT !.elapsed_before_pause_ms = @ + as_millis(now - The(s.last_resume_at)),
                   !.last_resume_at = None]
    ELSE s

elapsed_ms(s, t) ==
    IF s.state = "Running"
    THEN (IF s.last_resume_at # None
          THEN s.elapsed_before_pause_ms + as_millis(t - The(s.last_resume_at))
          ELSE s.elapsed_before_pause_ms)
    ELSE s.elapsed_before_pause_ms

runtime_finished(s, hs) ==
    IF s.runtime # None THEN hs[The(s.runtime)].finished ELSE TRUE

\* ------------------------------------------------- CaptureRuntimeHandle
\* What stop() and wait() of a runtime handle may return.
RuntimeResults == {"Ok", "RuntimeError"}

\* exit: how the capture thread ended when it ended on its own, which is what
\* wait() then reports.
NoHandle == [status |-> "absent", finished |-> FALSE, paused |-> FALSE, exit |-> "Ok"]

NewHandle == [status |-> "live", finished |-> FALSE, paused |-> FALSE, exit |-> "Ok"]

\* stop() and wait() take the handle by value: it is gone once either returns.
ConsumedHandle(how) == [status |-> how, finished |-> TRUE, paused |-> FALSE, exit |-> "Ok"]

runtime_wait_ok(hs, r) == "Ok"

runtime_wait(hs, r) == hs[r].exit

\* ---------------------------------------------------------- CaptureManager
\* What an operation leaves behind: the session, the handles, the value returned,
\* and whether the runtime factory was invoked.
Outcome(sess, hs, res) ==
    [session |-> sess, handles |-> hs, result |-> res, built |-> FALSE]

Built(sess, hs, res) ==
    [session |-> sess, handles |-> hs, result |-> res, built |-> TRUE]

Ok == [kind |-> "Ok"]

cleanup_keeps_stopped(sess) == sess

cleanup_stopped_session_if_any(sess) ==
    IF sess # None /\ The(sess).state = "Stopped" THEN None ELSE sess

finalize_finished_runtime_if_any(sess, hs) ==
    LET should_finalize ==
            sess # None
            /\ The(sess).state \in {"Running", "Paused"}
            /\ runtime_finished(The(sess), hs)
    IN IF ~should_finalize THEN Outcome(sess, hs, Ok)
       ELSE LET s0 == accumulate_elapsed(The(sess))
                s1 == [s0 EXCEPT !.state = "Stopped", !.last_resume_at = None]
                wait_res == runtime_wait(hs, The(s1.runtime))
            IN IF s1.runtime # None
               THEN Outcome(
                        Some([s1 EXCEPT !.runtime = None,
                                        !.last_error = IF wait_res = "Ok" THEN @
                                                       ELSE Some(wait_res)]),
                        [hs EXCEPT ![The(s1.runtime)] = ConsumedHandle("waited")],
                        Ok)
               ELSE Outcome(Some(s1), hs, Ok)

SessionExists_never(sess) == FALSE

\* start(): self.active_session.is_some()
SessionExists(sess) == sess # None

FpsInvalid(fps) == fps = 0 \/ fps > MaxFps

\* A variant of start that discards a Stopped or finished session only once
\* it has built the new runtime, and otherwise leaves everything as it was.
start_validates_first(sess, hs, config, env, next_id) ==
    LET f == finalize_finished_runtime_if_any(sess, hs)
        cleaned == cleanup_stopped_session_if_any(f.session)
        found == {t \in ProviderTargets : t.id = config.target_id}
    IN IF SessionExists(cleaned)
       THEN Outcome(sess, hs, [kind |-> "YaExisteGrabacion"])
       ELSE IF FpsInvalid(config.fps)
       THEN Outcome(sess, hs, [kind |-> "FpsInvalido", min |-> 1, max |-> MaxFps])
       ELSE IF ~env.provider_ok
       THEN Outcome(sess, hs, [kind |-> "ProviderError"])
       ELSE IF found = {}
       THEN Outcome(sess, hs, [kind |-> "TargetNoEncontrado", id |-> config.target_id])
       ELSE LET v == IF config.crop_region # None
                     THEN validate_against_target(The(config.crop_region), The(found),
                                                  env.overflow_checks)
                     ELSE Ok
            IN IF v.kind # "Ok"
               THEN Outcome(sess, hs, v)
               ELSE IF env.factory_res # "Ok"
               THEN Built(sess, hs, [kind |-> "FactoryError"])
               ELSE Built(Some(ActiveSession_new(next_id, next_id)),
                          [r \in DOMAIN f.handles |->
                              IF r = next_id THEN NewHandle ELSE f.handles[r]],
                          Ok)

\* env.provider_ok: whether provider.get_targets() succeeds; env.factory_res: what
\* the runtime factory returns if it is invoked; env.overflow_checks: the build
\* profile; next_id: the id of a new session.
start(sess, hs, config, env, next_id) ==
    LET f == finalize_finished_runtime_if_any(sess, hs)
        cleaned == cleanup_stopped_session_if_any(f.session)
        found == {t \in ProviderTargets : t.id = config.target_id}
    IN IF SessionExists(cleaned)
       THEN Outcome(cleaned, f.handles, [kind |-> "YaExisteGrabacion"])
       ELSE IF FpsInvalid(config.fps)
       THEN Outcome(cleaned, f.handles, [kind |-> "FpsInvalido", min |-> 1, max |-> MaxFps])
       ELSE IF ~env.provider_ok
       THEN Outcome(cleaned, f.handles, [kind |-> "ProviderError"])
       ELSE IF found = {}
       THEN Outcome(cleaned, f.handles, [kind |-> "TargetNoEncontrado", id |-> config.target_id])
       ELSE LET v == IF config.crop_region # None
                     THEN validate_against_target(The(config.crop_region), The(found),
                                                  env.overflow_checks)
                     ELSE Ok
            IN IF v.kind # "Ok"
               THEN Outcome(cleaned, f.handles, v)
               ELSE IF env.factory_res # "Ok"
               THEN Built(cleaned, f.handles, [kind |-> "FactoryError"])
               ELSE Built(Some(ActiveSession_new(next_id, next_id)),
                          [r \in DOMAIN f.handles |->
                              IF r = next_id THEN NewHandle ELSE f.handles[r]],
                          Ok)

NoActiva == [kind |-> "NoHayGrabacionActiva"]

Transicion(op, state) == [kind |-> "TransicionInvalida", op |-> op, state |-> state]

pause(sess, hs) ==
    LET f == finalize_finished_runtime_if_any(sess, hs) IN
    IF f.session = None THEN Outcome(f.session, f.handles, NoActiva)
    ELSE LET s == The(f.session) IN
         IF ~can_pause(s.state)
         THEN Outcome(f.session, f.handles, Transicion("pausar", s.state))
         ELSE Outcome(Some([accumulate_elapsed(s) EXCEPT !.state = "Paused"]),
                      IF s.runtime # None
                      THEN [f.handles EXCEPT ![The(s.runtime)].paused = TRUE]
                      ELSE f.handles,
                      Ok)

resume(sess, hs) ==
    LET f == finalize_finished_runtime_if_any(sess, hs) IN
    IF f.session = None THEN Outcome(f.session, f.handles, NoActiva)
    ELSE LET s == The(f.session) IN
         IF ~can_resume(s.state)
         THEN Outcome(f.session, f.handles, Transicion("reanudar", s.state))
         ELSE Outcome(Some([s EXCEPT !.state = "Running", !.last_resume_at = Some(now)]),
                      IF s.runtime # None
                      THEN [f.handles EXCEPT ![The(s.runtime)].paused = FALSE]
                      ELSE f.handles,
                      Ok)

\* A variant of stop without the exemption of a session that is already Stopped.
stop_keeps_session(sess, hs, stop_res) ==
    LET f == finalize_finished_runtime_if_any(sess, hs) IN
    IF f.session = None THEN Outcome(None, f.handles, NoActiva)
    ELSE LET taken == The(f.session)
             s == IF can_stop(taken.state)
                  THEN [accumulate_elapsed(taken) EXCEPT !.state = "Stopped"]
                  ELSE taken
         IN IF ~can_stop(taken.state) /\ taken.state # "Stopped"
            THEN Outcome(f.session, f.handles, Transicion("detener", taken.state))
            ELSE IF s.runtime # None
            THEN LET hs2 == [f.handles EXCEPT ![The(s.runtime)] = ConsumedHandle("stopped")]
                 IN IF stop_res # "Ok"
                    THEN Outcome(Some([s EXCEPT !.runtime = None,
                                                !.last_error = Some(stop_res)]),
                                 hs2, [kind |-> stop_res])
                    ELSE Outcome(Some([s EXCEPT !.runtime = None]), hs2, Ok)
            ELSE Outcome(None, f.handles, Ok)

stop_rejects_stopped(sess, hs, stop_res) ==
    LET f == finalize_finished_runtime_if_any(sess, hs) IN
    IF f.session = None THEN Outcome(None, f.handles, NoActiva)
    ELSE LET taken == The(f.session)
             s == [accumulate_elapsed(taken) EXCEPT !.state = "Stopped"]
         IN IF ~can_stop(taken.state)
            THEN Outcome(f.session, f.handles, Transicion("detener", taken.state))
            ELSE IF s.runtime # None
            THEN LET hs2 == [f.handles EXCEPT ![The(s.runtime)] = ConsumedHandle("stopped")]
                 IN IF stop_res # "Ok"
                    THEN Outcome(Some([s EXCEPT !.runtime = None,
                                                !.last_error = Some(stop_res)]),
                                 hs2, [kind |-> stop_res])
                    ELSE Outcome(None, hs2, Ok)
            ELSE Outcome(None, f.handles, Ok)

\* A variant of stop that does not put the session back when the runtime's
\* stop() failed.
stop_forgets_failed(sess, hs, stop_res) ==
    LET f == finalize_finished_runtime_if_any(sess, hs) IN
    IF f.session = None THEN Outcome(None, f.handles, NoActiva)
    ELSE LET taken == The(f.session)
             s == IF can_stop(taken.state)
                  THEN [accumulate_elapsed(taken) EXCEPT !.state = "Stopped"]
                  ELSE taken
         IN IF ~can_stop(taken.state) /\ taken.state # "Stopped"
            THEN Outcome(f.session, f.handles, Transicion("detener", taken.state))
            ELSE IF s.runtime # None
            THEN LET hs2 == [f.handles EXCEPT ![The(s.runtime)] = ConsumedHandle("stopped")]
                 IN IF stop_res # "Ok"
                    THEN Outcome(None, hs2, [kind |-> stop_res])
                    ELSE Outcome(None, hs2, Ok)
            ELSE Outcome(None, f.handles, Ok)

\* stop_res is what runtime.stop() returns if it is called.
stop(sess, hs, stop_res) ==
    LET f == finalize_finished_runtime_if_any(sess, hs) IN
    IF f.session = None THEN Outcome(None, f.handles, NoActiva)
    ELSE LET taken == The(f.session)
             s == IF can_stop(taken.state)
                  THEN [accumulate_elapsed(taken) EXCEPT !.state = "Stopped"]
                  ELSE taken
         IN IF ~can_stop(taken.state) /\ taken.state # "Stopped"
            THEN Outcome(f.session, f.handles, Transicion("detener", taken.state))
            ELSE IF s.runtime # None
            THEN LET hs2 == [f.handles EXCEPT ![The(s.runtime)] = ConsumedHandle("stopped")]
                 IN IF stop_res # "Ok"
                    THEN Outcome(Some([s EXCEPT !.runtime = None,
                                                !.last_error = Some(stop_res)]),
                                 hs2, [kind |-> stop_res])
                    ELSE Outcome(None, hs2, Ok)
            ELSE Outcome(None, f.handles, Ok)

cancel(sess, hs, stop_res) == stop(sess, hs, stop_res)

snapshot ==
    IF active_session # None
    THEN [state |-> The(active_session).state,
          elapsed_ms |-> elapsed_ms(The(active_session), now),
          last_error |-> The(active_session).last_error]
    ELSE [state |-> "Idle", elapsed_ms |-> 0, last_error |-> None]

is_active ==
    active_session # None /\ The(active_session).state \in {"Running", "Paused"}

\* ------------------------------------------------------------ the inputs
\* One valid configuration, and the configurations that differ from it in one field.
BaseFps == 30

BaseConfig == [target_id |-> MockTargetId, fps |-> BaseFps, crop_region |-> None]

FpsChoices == {0, 1, MaxFps, MaxFps + 1}

CropChoices ==
    {Some(Region(0, 0, TargetWidth, TargetHeight)),
     Some(Region(1910, 1075, 10, 5)),
     Some(Region(1910, 1075, 80, 40)),
     Some(Region(0, 1075, 10, 40)),
     Some(Region(0, 0, 0, 10)),
     Some(Region(0, 0, 10, 0)),
     Some(Region(U32Max, 0, 2, 10)),
     Some(Region(0, U32Max, 10, 2))}

SessionConfigs ==
    {BaseConfig, [BaseConfig EXCEPT !.target_id = MissingTargetId]}
    \cup {[BaseConfig EXCEPT !.fps = f] : f \in FpsChoices}
    \cup {[BaseConfig EXCEPT !.crop_region = c] : c \in CropChoices}

HandleIds == 1..MaxSessions

\* The dependencies' answers to one start(): all well, or one of them off.
BaseEnv == [provider_ok |-> TRUE, factory_res |-> "Ok", overflow_checks |-> FALSE]

StartInputs ==
    {<<c, BaseEnv>> : c \in SessionConfigs}
    \cup {<<BaseConfig, [BaseEnv EXCEPT !.provider_ok = FALSE]>>,
          <<BaseConfig, [BaseEnv EXCEPT !.factory_res = "RuntimeError"]>>}
    \cup {<<[BaseConfig EXCEPT !.crop_region = c], [BaseEnv EXCEPT !.overflow_checks = TRUE]>> :
             c \in CropChoices}

\* built: whether the operation invoked the runtime factory.
Op(name, o) == [op |-> name, result |-> o.result, built |-> o.built]

\* ------------------------------------------------------ manager: the state
InitManager ==
    /\ active_session = None
    /\ handles = [r \in HandleIds |-> NoHandle]
    /\ now = 0
    /\ poisoned = FALSE
    /\ last_op = Op("new", Outcome(None, handles, Ok))
    /\ sessions_created = 0
    /\ running_ticks = 0
    /\ resumes = 0

InitPipeline ==
    /\ chan = <<>>
    /\ queued = 0
    /\ dropped_frames = 0
    /\ worker_error = <<>>
    /\ paused = FALSE
    /\ pauses = 0
    /\ surfaces = 0
    /\ discarded = 0
    /\ frame_counter = 0
    /\ p_pc = "starting"
    /\ p_observed = 0
    /\ p_send = "none"
    /\ p_fatal = None
    /\ w_pc = "new"
    /\ w_frame = None
    /\ w_exit = "none"
    /\ f_pc = "idle"
    /\ f_result = None
    /\ enqueued = <<>>
    /\ encoded = <<>>
    /\ refused = {}
    /\ late_enqueues = 0
    /\ on_stop_calls = 0
    /\ h_pc = "none"
    /\ h_via = "none"
    /\ h_callbacks = 0
    /\ audio_finalize = "none"

\* The session has started (start_recording cleared the label) and its worker
\* has not built the consumer yet.
InitEncoder ==
    /\ enc_config = None
    /\ enc_ctx = None
    /\ enc_state = "unborn"
    /\ live_label = None
    /\ enc_calls = 0
    /\ enc_valid = 0
    /\ enc_inits = 0
    /\ enc_selected = None
    /\ pts_log = <<>>
    /\ enc_final = None

\* No region has been validated.
InitValidate ==
    /\ v_region = Region(0, 0, 0, 0)
    /\ v_target = [id |-> MockTargetId, width |-> TargetWidth, height |-> TargetHeight]
    /\ v_checks = FALSE
    /\ v_result = None

\* Audio model bounds: the last millisecond of the recording clock and the
\* buffers the capture workers process.
MaxElapsed == 1
MaxBuffers == 2

\* ============================================================================
\* Audio capture service (encoder/audio_capture/platform/windows.rs), its
\* capture workers (wasapi_capture.rs) and the mux stage (mux.rs).
\* ============================================================================
TrackKinds == {"system", "microphone"}

\* Err(message) of the audio service and of the mux stage.
AudioErr(msg) == [kind |-> "Err", err |-> msg]

\* WAV_HEADER_BYTES of mux.rs and the size of one captured buffer.
WAV_HEADER_BYTES == 44
BufferBytes == 8

\* u64::MAX in the code: a value no elapsed time of the model reaches.
FIRST_ENABLE_UNSET == MaxElapsed + 1

\* spawn_capture_worker: the flags of a fresh worker and its empty WAV.
spawn_capture_worker(initial_enabled) ==
    [enabled |-> initial_enabled,
     ever_enabled |-> initial_enabled,
     first_enabled_at_ms |-> IF initial_enabled THEN 0 ELSE FIRST_ENABLE_UNSET,
     wav |-> <<>>]

\* start_capture_track: a required track fails without its device, an optional
\* one falls back to the default device or is left out.
start_capture_track(required, initial_enabled, preferred_ok, default_ok) ==
    IF preferred_ok THEN [result |-> Ok, capture |-> Some(spawn_capture_worker(initial_enabled))]
    ELSE IF ~required
         THEN IF default_ok
              THEN [result |-> Ok, capture |-> Some(spawn_capture_worker(initial_enabled))]
              ELSE [result |-> Ok, capture |-> None]
         ELSE [result |-> AudioErr("DeviceNotFound"), capture |-> None]

\* The initial_enabled start passes for a track: its flag of the configuration.
a_config_enables(config, k) ==
    IF k = "system" THEN config.capture_system_audio ELSE config.capture_microphone_audio

\* AudioCaptureConfig::is_enabled.
config_is_enabled(config) == config.capture_system_audio \/ config.capture_microphone_audio

\* A worker that stamps first_enabled_at_ms at every buffer it processes while
\* enabled.
process_buffer_restamps(cap, elapsed, bytes_to_write, silent, null_ptr) ==
    LET is_enabled == cap.enabled
        ever == IF is_enabled THEN TRUE ELSE cap.ever_enabled
        first == IF is_enabled THEN elapsed ELSE cap.first_enabled_at_ms
        wav == IF bytes_to_write = 0 THEN cap.wav
               ELSE IF ~ever THEN cap.wav
               ELSE IF ~is_enabled \/ silent \/ null_ptr
                    THEN Append(cap.wav, [what |-> "silence", len |-> bytes_to_write])
                    ELSE Append(cap.wav, [what |-> "samples", len |-> bytes_to_write])
    IN  [cap EXCEPT !.ever_enabled = ever, !.first_enabled_at_ms = first, !.wav = wav]

\* A worker that writes nothing for a buffer captured while the track is
\* disabled.
process_buffer_skips_disabled(cap, elapsed, bytes_to_write, silent, null_ptr) ==
    LET is_enabled == cap.enabled
        was_enabled_before == cap.ever_enabled
        ever == IF is_enabled THEN TRUE ELSE cap.ever_enabled
        first == IF is_enabled /\ ~was_enabled_before
                    /\ cap.first_enabled_at_ms = FIRST_ENABLE_UNSET
                 THEN elapsed ELSE cap.first_enabled_at_ms
        wav == IF bytes_to_write = 0 \/ ~is_enabled THEN cap.wav
               ELSE IF silent \/ null_ptr
                    THEN Append(cap.wav, [what |-> "silence", len |-> bytes_to_write])
                    ELSE Append(cap.wav, [what |-> "samples", len |-> bytes_to_write])
    IN  [cap EXCEPT !.ever_enabled = ever, !.first_enabled_at_ms = first, !.wav = wav]

\* What one worker does with one captured buffer of bytes_to_write bytes.
process_buffer(cap, elapsed, bytes_to_write, silent, null_ptr) ==
    LET is_enabled == cap.enabled
        was_enabled_before == cap.ever_enabled
        ever == IF is_enabled THEN TRUE ELSE cap.ever_enabled
        first == IF is_enabled /\ ~was_enabled_before
                    /\ cap.first_enabled_at_ms = FIRST_ENABLE_UNSET
                 THEN elapsed ELSE cap.first_enabled_at_ms
        started_track == ever
        wav == IF bytes_to_write = 0 THEN cap.wav
               ELSE IF ~started_track THEN cap.wav
               ELSE IF ~is_enabled \/ silent \/ null_ptr
                    THEN Append(cap.wav, [what |-> "silence", len |-> bytes_to_write])
                    ELSE Append(cap.wav, [what |-> "samples", len |-> bytes_to_write])
    IN  [cap EXCEPT !.ever_enabled = ever, !.first_enabled_at_ms = first, !.wav = wav]

RECURSIVE written_audio_bytes(_)
written_audio_bytes(wav) ==
    IF wav = <<>> THEN 0 ELSE Head(wav).len + written_audio_bytes(Tail(wav))

\* The length of the WAV file of a worker: the header and what was written.
wav_file_len(cap) == WAV_HEADER_BYTES + written_audio_bytes(cap.wav)

audio_file_has_payload(len) == len > WAV_HEADER_BYTES

normalized_track_delay(raw_delay) ==
    IF raw_delay = FIRST_ENABLE_UNSET THEN 0 ELSE raw_delay

track_input_by_payload(kind, capture, has_payload) ==
    IF capture # None /\ has_payload
    THEN <<[source |-> kind,
            delay_ms |-> normalized_track_delay(The(capture).first_enabled_at_ms)]>>
    ELSE <<>>

\* The AudioTrackInput of one track, or nothing: finalize_and_mux takes a track
\* that was ever enabled and whose WAV carries more than its header.
track_input(kind, capture, has_payload) ==
    IF capture # None /\ The(capture).ever_enabled /\ has_payload
    THEN <<[source |-> kind,
            delay_ms |-> normalized_track_delay(The(capture).first_enabled_at_ms)]>>
    ELSE <<>>

\* The audio_tracks of finalize_and_mux; payload tells, per track, what
\* audio_file_has_payload answers for its WAV file.
select_audio_tracks(captures, payload) ==
    track_input("system", captures["system"], payload["system"])
        \o track_input("microphone", captures["microphone"], payload["microphone"])

\* audio_file_has_payload of the WAV files the workers wrote.
written_payload(captures) ==
    [k \in TrackKinds |->
        captures[k] # None /\ audio_file_has_payload(wav_file_len(The(captures[k])))]

\* ------------------------------------------------------------ files on disk
Paths == {"temp", "video_only", "final"}

exists(files, p) == files[p] # "absent"
remove_file(files, p) == [files EXCEPT ![p] = "absent"]
rename(files, from, to) == [files EXCEPT ![to] = files[from], ![from] = "absent"]

\* output_paths.rs move_temp_to_final: rename, or copy and remove when the
\* rename is refused (another volume).
move_temp_to_final(files, rename_ok) ==
    IF ~exists(files, "temp")
    THEN [files |-> files, result |-> AudioErr("NoTempFile")]
    ELSE LET cleared == IF exists(files, "final") THEN remove_file(files, "final") ELSE files
         IN  IF rename_ok
             THEN [files |-> rename(cleared, "temp", "final"), result |-> Ok]
             ELSE [files |-> remove_file([cleared EXCEPT !["final"] = cleared["temp"]], "temp"),
                   result |-> Ok]

restore_video_only_file_skipped(files) == files

restore_video_only_file(files) ==
    LET cleared == IF exists(files, "temp") THEN remove_file(files, "temp") ELSE files
    IN  IF exists(cleared, "video_only") THEN rename(cleared, "video_only", "temp") ELSE cleared

\* What the FFmpeg process leaves at the final path: the muxed file, or when
\* it fails a partial file or nothing new.
ffmpeg_output(files, env) ==
    IF env.spawn # "spawned" THEN files
    ELSE IF env.exit_ok THEN [files EXCEPT !["final"] = "muxed"]
    ELSE IF env.partial THEN [files EXCEPT !["final"] = "partial"]
    ELSE files

\* mux.rs mux_audio_into_video.
mux_audio_into_video(files, env) ==
    IF ~exists(files, "temp")
    THEN [files |-> files, result |-> AudioErr("NoBaseVideo")]
    ELSE LET cleared == IF exists(files, "video_only")
                        THEN remove_file(files, "video_only") ELSE files
             prepared == rename(cleared, "temp", "video_only")
             ran == ffmpeg_output(prepared, env)
             restored == restore_video_only_file(ran)
             moved == move_temp_to_final(restored, env.rename_ok).files
         IN  IF ~env.prepare_ok
             THEN [files |-> cleared, result |-> AudioErr("PrepareError")]
             ELSE IF env.spawn = "not_found"
             THEN [files |-> moved, result |-> AudioErr("FfmpegNotFound")]
             ELSE IF env.spawn = "failed"
             THEN [files |-> moved, result |-> AudioErr("FfmpegNotRun")]
             ELSE IF ~env.exit_ok
             THEN [files |-> moved, result |-> AudioErr("FfmpegFailed")]
             ELSE [files |-> remove_file(ran, "video_only"), result |-> Ok]

MuxEnvs ==
    [spawn : {"spawned", "not_found", "failed"}, exit_ok : BOOLEAN, partial : BOOLEAN,
     prepare_ok : BOOLEAN, rename_ok : BOOLEAN, thread_error : BOOLEAN]

\* What the encoder and earlier recordings left on disk when finalize_and_mux
\* runs: the video at the temp path or nothing, older files or none.
DiskStates ==
    {[temp |-> video, video_only |-> old, final |-> old] :
        video \in {"video", "absent"}, old \in {"old", "absent"}}

\* The environments that differ for one finalize_and_mux: without tracks to
\* mux no FFmpeg runs, a process that did not start has no exit status, and
\* one that succeeded leaves no partial file.
MuxEnvsFor(captures) ==
    {env \in MuxEnvs :
        /\ (select_audio_tracks(captures, written_payload(captures)) = <<>>) =>
              (env.spawn = "spawned" /\ env.exit_ok /\ env.prepare_ok)
        /\ (select_audio_tracks(captures, written_payload(captures)) # <<>>) =>
              ~env.thread_error
        /\ (env.spawn # "spawned") => env.exit_ok
        /\ env.exit_ok => ~env.partial
        /\ ~env.prepare_ok => (env.spawn = "spawned" /\ env.exit_ok /\ env.rename_ok)}

\* The part of finalize_and_mux after the workers stopped: the tracks chosen,
\* and the file moved or muxed.
finalize_and_mux(config, captures, payload, files, env) ==
    LET audio_tracks == select_audio_tracks(captures, payload)
        moved == move_temp_to_final(files, env.rename_ok)
        muxed == mux_audio_into_video(files, env)
    IN  IF audio_tracks = <<>>
        THEN IF config_is_enabled(config)
             THEN [files |-> moved.files, mux |-> None,
                   result |-> IF moved.result # Ok THEN moved.result
                              ELSE IF env.thread_error THEN AudioErr("CaptureThread")
                              ELSE AudioErr("NoValidAudio")]
             ELSE [files |-> moved.files, mux |-> None, result |-> moved.result]
        ELSE [files |-> muxed.files, mux |-> Some(audio_tracks), result |-> muxed.result]

\* ---------------------------------------------------- the live controller
\* LiveAudioController: which tracks have an enabled flag to set.
controller_of(captures) == [k \in TrackKinds |-> captures[k] # None]

update_live_audio_capture_unchecked(controller, captures, capture_system_audio, capture_microphone_audio) ==
    [result |-> Ok,
     captures |-> [k \in TrackKinds |->
        IF captures[k] # None
        THEN Some([The(captures[k]) EXCEPT !.enabled =
                     IF k = "system" THEN capture_system_audio ELSE capture_microphone_audio])
        ELSE captures[k]]]

\* windows.rs update_live_audio_capture: refuse without a controller or when a
\* track to enable has no capturer, otherwise store both flags.
update_live_audio_capture(controller, captures, capture_system_audio, capture_microphone_audio) ==
    IF controller = None
    THEN [result |-> AudioErr("NoActiveRecording"), captures |-> captures]
    ELSE IF capture_system_audio /\ ~The(controller)["system"]
    THEN [result |-> AudioErr("NoSystemCapturer"), captures |-> captures]
    ELSE IF capture_microphone_audio /\ ~The(controller)["microphone"]
    THEN [result |-> AudioErr("NoMicrophoneCapturer"), captures |-> captures]
    ELSE [result |-> Ok,
          captures |-> [k \in TrackKinds |->
             IF The(controller)[k] /\ captures[k] # None
             THEN Some([The(captures[k]) EXCEPT !.enabled =
                          IF k = "system" THEN capture_system_audio
                          ELSE capture_microphone_audio])
             ELSE captures[k]]]

\* windows.rs get_live_audio_status: the flags of the published controller,
\* false for a track it has not and for no controller at all.
get_live_audio_status(controller, captures) ==
    [k \in TrackKinds |->
        controller # None /\ The(controller)[k] /\ captures[k] # None
            /\ The(captures[k]).enabled]

\* No audio service yet.
InitAudio ==
    /\ a_pc = "none"
    /\ a_config = [capture_system_audio |-> FALSE, capture_microphone_audio |-> FALSE]
    /\ a_captures = [k \in TrackKinds |-> None]
    /\ a_controller = None
    /\ a_elapsed = 0
    /\ a_buffers = 0
    /\ a_heard = [k \in TrackKinds |-> FALSE]
    /\ a_captured = [k \in TrackKinds |-> 0]
    /\ a_files = [p \in Paths |-> "absent"]
    /\ a_mux = None
    /\ a_result = None
    /\ a_update = None

\* Texture model bounds: the frames of a session and the channel's capacity.
MaxTextures == 4
TextureQueue == 2

\* ============================================================================
\* The D3D11 texture reference of a GPU-carrying RawFrame (capture/models.rs),
\* from clone_frame_texture_ptr (capture/runtime.rs) through the worker's
\* channel (capture/manager.rs) to encode_gpu_texture_frame (encoder/consumer.rs).
\* The producer's admission gate is left out: the channel alone refuses frames,
\* which only adds behaviours.
\* ============================================================================
\* RawFrame::from_gpu_texture of a cloned texture (one reference, owned by the
\* frame) and RawFrame::new of a CPU frame; sized tells width, height > 0.
from_gpu_texture(sized) ==
    [gpu_texture_ptr |-> TRUE, has_cpu_data |-> FALSE, sized |-> sized,
     buffer_refs |-> 0, released |-> 0, fate |-> "callback"]

RawFrame_new(sized) ==
    [gpu_texture_ptr |-> FALSE, has_cpu_data |-> TRUE, sized |-> sized,
     buffer_refs |-> 0, released |-> 0, fate |-> "callback"]

\* RawFrame::is_valid, for a frame whose CPU layout is right when it has one.
frame_is_valid(fr) ==
    IF fr.has_cpu_data THEN fr.sized
    ELSE IF fr.gpu_texture_ptr THEN fr.sized
    ELSE FALSE

\* release_d3d11_texture_ptr / release_d3d11_texture_buffer: one Release.
release_texture(fr) == [fr EXCEPT !.released = @ + 1]

\* impl Drop for RawFrame: releases the texture the frame still holds.
drop_raw_frame(fr, fate) ==
    IF fr.gpu_texture_ptr
    THEN [release_texture(fr) EXCEPT !.gpu_texture_ptr = FALSE, !.fate = fate]
    ELSE [fr EXCEPT !.fate = fate]

take_gpu_texture_ptr_copies(fr) == [frame |-> fr, ptr |-> fr.gpu_texture_ptr]

\* RawFrame::take_gpu_texture_ptr: Option::take.
take_gpu_texture_ptr(fr) ==
    [frame |-> [fr EXCEPT !.gpu_texture_ptr = FALSE], ptr |-> fr.gpu_texture_ptr]

\* av_buffer_unref: the last reference runs the buffer's free callback.
buffer_unref(fr) ==
    IF fr.buffer_refs = 1
    THEN [release_texture(fr) EXCEPT !.buffer_refs = 0]
    ELSE [fr EXCEPT !.buffer_refs = @ - 1]

\* encode_gpu_texture_frame: the texture goes from the frame to an AVBuffer of
\* the hardware frame; send_frame gives the encoder its own reference, and the
\* hardware frame and the RawFrame are dropped at the end of the call.
encode_gpu_texture_frame(fr, env) ==
    LET taken == take_gpu_texture_ptr(fr)
        buffered == [taken.frame EXCEPT !.buffer_refs = 1]
        sent == [buffered EXCEPT !.buffer_refs = 2]
    IN  IF ~taken.ptr
        THEN [frame |-> drop_raw_frame(taken.frame, "no_texture"), result |-> "Err"]
        ELSE IF ~env.buffer_ok
        THEN [frame |-> drop_raw_frame(release_texture(taken.frame), "avbuffer_failed"),
              result |-> "Err"]
        ELSE IF ~env.send_ok
        THEN [frame |-> drop_raw_frame(buffer_unref(buffered), "send_failed"),
              result |-> "Err"]
        ELSE [frame |-> drop_raw_frame(buffer_unref(sent), "submitted"), result |-> "Ok"]

\* FfmpegEncoderConsumer::on_frame for the texture of the frame: an invalid
\* frame is discarded, a failed initialize and the CPU pipeline drop the frame
\* with an error, the GPU pipeline hands it to encode_gpu_texture_frame.
on_frame_texture(pipeline, fr, env) ==
    LET gpu_surface_only == fr.gpu_texture_ptr /\ ~fr.has_cpu_data
        opened == IF pipeline # "none" THEN pipeline
                  ELSE IF ~env.init_ok THEN "none"
                  ELSE IF gpu_surface_only THEN "GpuTextureD3d11" ELSE "Cpu"
        gpu_out == encode_gpu_texture_frame(fr, env)
    IN  IF ~frame_is_valid(fr)
        THEN [pipeline |-> pipeline, frame |-> drop_raw_frame(fr, "invalid"), result |-> "Ok"]
        ELSE IF opened = "none"
        THEN [pipeline |-> "none", frame |-> drop_raw_frame(fr, "init_failed"),
              result |-> "Err"]
        ELSE IF opened = "Cpu"
        THEN IF ~fr.has_cpu_data
             THEN [pipeline |-> opened, frame |-> drop_raw_frame(fr, "cpu_rejected"),
                   result |-> "Err"]
             ELSE [pipeline |-> opened, frame |-> drop_raw_frame(fr, "cpu_encoded"),
                   result |-> IF env.send_ok THEN "Ok" ELSE "Err"]
        ELSE [pipeline |-> opened, frame |-> gpu_out.frame, result |-> gpu_out.result]

TextureEnvs == [init_ok : BOOLEAN, buffer_ok : BOOLEAN, send_ok : BOOLEAN]

\* The environments that differ for one frame.
TextureEnvsFor(pipeline, fr) ==
    {env \in TextureEnvs :
        /\ (pipeline # "none" \/ ~frame_is_valid(fr)) => env.init_ok
        /\ (~frame_is_valid(fr) \/ ~env.init_ok) => (env.buffer_ok /\ env.send_ok)
        /\ ~env.buffer_ok => env.send_ok}

\* No frame captured yet, the worker waiting on its empty channel.
InitTexture ==
    /\ t_frames = <<>>
    /\ t_chan = <<>>
    /\ t_held = None
    /\ t_worker = "running"
    /\ t_pipeline = "none"
    /\ t_stop_sent = FALSE

InitFunctions == f_call = None

\* Processing status bound: the finalizers that hold a guard.
MaxFinalizers == 3

\* ============================================================================
\* Processing status (encoder/processing_status.rs): a counter of live
\* ProcessingGuards and an override flag, both atomics, read by is_processing
\* with two loads.
\* ============================================================================
Finalizers == 1..MaxFinalizers

\* The guards that were started and not yet dropped.
LiveGuards(gs) == {g \in DOMAIN gs : gs[g] = "alive"}

\* What is_processing computes from the two values it loaded.
is_processing_from(flag_loaded, counter_loaded) == flag_loaded \/ counter_loaded > 0

\* No guard, the override flag clear, nobody reading.
InitProcessing ==
    /\ processing_counter = 0
    /\ processing_override_flag = FALSE
    /\ guards = [g \in Finalizers |-> "none"]
    /\ reader = [pc |-> "idle", result |-> FALSE, was_true |-> FALSE, was_false |-> FALSE,
                 raised |-> FALSE]

\* Controller slot bound: the sessions recorded one after the other.
MaxServices == 3

\* ============================================================================
\* The audio services of successive sessions (windows.rs) and the process-wide
\* controller slot they publish to. A service is built by its session's
\* consumer, started by the consumer's initialize, and handed by finalize to
\* a detached thread that runs finalize_and_mux (audio_capture.rs).
\* ============================================================================
Services == 1..MaxServices

NoTracks == [k \in TrackKinds |-> FALSE]

\* set_live_audio_controller: the slot is overwritten, whoever published it.
set_live_audio_controller(slot, controller) == controller

\* A reset_state that clears the slot only when it holds the service's own
\* controller.
reset_state_own(slot, service) ==
    [slot |-> IF slot # None /\ The(slot).owner = service
              THEN set_live_audio_controller(slot, None) ELSE slot,
     tracks |-> NoTracks, started |-> FALSE]

\* AudioCaptureServiceImpl::reset_state.
reset_state(slot, service) ==
    [slot |-> set_live_audio_controller(slot, None), tracks |-> NoTracks, started |-> FALSE]

\* The LiveAudioController start publishes: the enable flags of the service's
\* captures.
LiveAudioController(service, tracks) == [owner |-> service, tracks |-> tracks]

\* No service built, the slot empty.
InitSlot ==
    /\ sv_pc = [i \in Services |-> "unborn"]
    /\ sv_started = [i \in Services |-> FALSE]
    /\ sv_tracks = [i \in Services |-> NoTracks]
    /\ live_slot = None

\* The manager, the pipeline of a session and its encoder, just constructed.
Init ==
    /\ InitManager /\ InitPipeline /\ InitEncoder /\ InitValidate /\ InitAudio /\ InitTexture
    /\ InitFunctions /\ InitProcessing /\ InitSlot

IsNewSession(o) ==
    o.session # None /\ (active_session = None \/ The(o.session).sid # The(active_session).sid)

\* The commands take the manager mutex for one whole operation (commands.rs),
\* so each operation is one step.
Start ==
    /\ ~poisoned
    /\ \E in \in StartInputs :
          LET o == start(active_session, handles, in[1], in[2], sessions_created + 1)
          IN /\ IsNewSession(o) => sessions_created < MaxSessions
             /\ active_session' = o.session
             /\ handles' = o.handles
             /\ poisoned' = (o.result.kind = "Panic")
             /\ last_op' = Op("start", o)
             /\ sessions_created' = IF IsNewSession(o) THEN sessions_created + 1
                                     ELSE sessions_created
             /\ running_ticks' = IF IsNewSession(o) THEN 0 ELSE running_ticks
             /\ resumes' = IF IsNewSession(o) THEN 0 ELSE resumes
    /\ UNCHANGED now
    /\ UNCHANGED outside_manager

Pause ==
    /\ ~poisoned
    /\ LET o == pause(active_session, handles)
          IN /\ active_session' = o.session
             /\ handles' = o.handles
             /\ last_op' = Op("pause", o)
    /\ UNCHANGED <<now, poisoned, sessions_created,
                   running_ticks, resumes>>
    /\ UNCHANGED outside_manager

Resume ==
    /\ ~poisoned
    /\ LET o == resume(active_session, handles)
          IN /\ o.result.kind = "Ok" => resumes < MaxResumes
             /\ active_session' = o.session
             /\ handles' = o.handles
             /\ last_op' = Op("resume", o)
             /\ resumes' = IF o.result.kind = "Ok" THEN resumes + 1 ELSE resumes
    /\ UNCHANGED <<now, poisoned, sessions_created,
                   running_ticks>>
    /\ UNCHANGED outside_manager

Stop ==
    /\ ~poisoned
    /\ \E stop_res \in RuntimeResults :
          LET o == stop(active_session, handles, stop_res)
          IN /\ active_session' = o.session
             /\ handles' = o.handles
             /\ last_op' = Op("stop", o)
    /\ UNCHANGED <<now, poisoned, sessions_created,
                   running_ticks, resumes>>
    /\ UNCHANGED outside_manager

Cancel ==
    /\ ~poisoned
    /\ \E stop_res \in RuntimeResults :
          LET o == cancel(active_session, handles, stop_res)
          IN /\ active_session' = o.session
             /\ handles' = o.handles
             /\ last_op' = Op("cancel", o)
    /\ UNCHANGED <<now, poisoned, sessions_created,
                   running_ticks, resumes>>
    /\ UNCHANGED outside_manager

RefreshRuntimeState ==
    /\ ~poisoned
    /\ LET o == finalize_finished_runtime_if_any(active_session, handles)
          IN /\ active_session' = o.session
             /\ handles' = o.handles
             /\ last_op' = Op("refresh_runtime_state", o)
    /\ UNCHANGED <<now, poisoned, sessions_created,
                   running_ticks, resumes>>
    /\ UNCHANGED outside_manager

\* The capture thread of a live runtime ends on its own (error, target closed).
RuntimeFinishes ==
    /\ \E r \in HandleIds, exit \in RuntimeResults :
          /\ handles[r].status = "live"
          /\ ~handles[r].finished
          /\ handles' = [handles EXCEPT ![r].finished = TRUE, ![r].exit = exit]
    /\ UNCHANGED <<active_session, now, poisoned, last_op,
                   sessions_created, running_ticks, resumes>>
    /\ UNCHANGED outside_manager

\* The clock advances by one tick.
Tick ==
    /\ now < MaxTime
    /\ now' = now + 1
    /\ running_ticks' = IF active_session # None /\ The(active_session).state = "Running"
                         THEN running_ticks + 1 ELSE running_ticks
    /\ UNCHANGED <<active_session, handles, poisoned,
                   last_op, sessions_created, resumes>>
    /\ UNCHANGED outside_manager

NextManager ==
    \/ Start
    \/ Pause
    \/ Resume
    \/ Stop
    \/ Cancel
    \/ RefreshRuntimeState
    \/ RuntimeFinishes
    \/ Tick

SpecManager == Init /\ [][NextManager]_vars

\* ------------------------------------------------ AsyncVideoPipeline: code
\* A variant of the admission gate that admits one frame too many.
should_accept_frame_always(q) == TRUE

should_accept_frame_inclusive(q) == q <= VIDEO_PIPELINE_QUEUE_CAPACITY

should_accept_frame(q) == q < VIDEO_PIPELINE_QUEUE_CAPACITY

decrement_queued_frames(q) == IF q > 0 THEN q - 1 ELSE 0

\* A variant of read_worker_error that never sees the recorded error.
read_worker_error_blind(slot) == <<>>

read_worker_error(slot) == slot

\* An existing message is kept and the new one is appended after " | ".
set_worker_error(slot, message) == Append(slot, message)

\* A variant of on_frame_dropped that forgets to count.
on_frame_dropped_forgets(d) == d

on_frame_dropped(d) == d + 1

StopMessage == [stop |-> TRUE]

FrameMessage(f) == [stop |-> FALSE, frame |-> f]

receiver_alive == w_pc # "done"

senders_alive == p_pc # "gone"

try_send(ch, alive) ==
    IF ~alive THEN "Disconnected"
    ELSE IF Len(ch) >= VIDEO_PIPELINE_QUEUE_CAPACITY THEN "Full"
    ELSE "Ok"

\* A receiver that hands over the newest message instead of the oldest.
recv_newest(ch) == [message |-> ch[Len(ch)], rest |-> SubSeq(ch, 1, Len(ch) - 1)]

recv(ch) == [message |-> Head(ch), rest |-> Tail(ch)]

Fatal(stage, err) == Some([stage |-> stage, err |-> err])

\* A producer that does not look at the paused flag.
paused_load_ignored(flag) == FALSE

\* on_frame_arrived: self.flags.paused.load(Relaxed), its first statement.
paused_load(flag) == flag

\* ------------------------------------------ the capture producer's thread
producer_vars == <<surfaces, discarded, frame_counter, p_pc, p_observed, p_send, p_fatal>>
worker_vars == <<w_pc, w_frame, w_exit, encoded, on_stop_calls>>
finisher_vars == <<f_pc, f_result>>
history_vars == <<enqueued, refused, late_enqueues>>
handle_vars == <<h_pc, h_via, h_callbacks, audio_finalize>>

\* The factory built the runtime and the capture thread is delivering surfaces.
P_Started ==
    /\ p_pc = "starting"
    /\ p_pc' = "idle"
    /\ h_pc' = "held"
    /\ UNCHANGED <<outside_pipeline, h_via, h_callbacks, audio_finalize, chan, queued, dropped_frames, worker_error, paused, pauses,
                   surfaces, discarded, frame_counter, p_observed, p_send, p_fatal,
                   worker_vars, finisher_vars, history_vars>>

\* The factory failed after the callbacks were built: they are dropped
\* unused, and the channel's only sender with them.
P_StartFails ==
    /\ p_pc = "starting"
    /\ p_pc' = "gone"
    /\ UNCHANGED <<outside_pipeline, handle_vars, chan, queued, dropped_frames, worker_error, paused, pauses,
                   surfaces, discarded, frame_counter, p_observed, p_send, p_fatal,
                   worker_vars, finisher_vars, history_vars>>

\* on_frame_arrived is called with a new surface, at most limit times; a
\* paused capture discards it.
SurfaceArrives(limit) ==
    /\ p_pc = "idle"
    /\ surfaces + discarded < limit
    /\ IF paused_load(paused)
       THEN /\ discarded' = discarded + 1
            /\ UNCHANGED <<surfaces, p_pc>>
       ELSE /\ surfaces' = surfaces + 1
            /\ p_pc' = "gate_error"
            /\ UNCHANGED discarded
    /\ UNCHANGED <<outside_pipeline, handle_vars, chan, queued, dropped_frames, worker_error, paused, pauses,
                   frame_counter, p_observed, p_send, p_fatal,
                   worker_vars, finisher_vars, history_vars>>

P_SurfaceArrives == SurfaceArrives(MaxFrames)

\* should_accept_frame, first half: the error slot.
P_GateReadsError ==
    /\ p_pc = "gate_error"
    /\ IF read_worker_error(worker_error) # <<>>
       THEN /\ p_pc' = "halted"
            /\ p_fatal' = Fatal("backpressure", read_worker_error(worker_error))
       ELSE /\ p_pc' = "gate_load"
            /\ UNCHANGED p_fatal
    /\ UNCHANGED <<outside_pipeline, handle_vars, chan, queued, dropped_frames, worker_error, paused, pauses,
                   surfaces, discarded, frame_counter, p_observed, p_send,
                   worker_vars, finisher_vars, history_vars>>

\* should_accept_frame, second half: the load of queued_frames.
P_GateLoadsQueued ==
    /\ p_pc = "gate_load"
    /\ p_observed' = queued
    /\ IF should_accept_frame(queued)
       THEN /\ p_pc' = "arrive_error"
            /\ UNCHANGED refused
       ELSE /\ p_pc' = "dropping"
            /\ refused' = refused \cup {surfaces}
    /\ UNCHANGED <<outside_pipeline, handle_vars, chan, queued, dropped_frames, worker_error, paused, pauses,
                   surfaces, discarded, frame_counter, p_send, p_fatal,
                   worker_vars, finisher_vars, enqueued, late_enqueues>>

\* on_frame_dropped at the gate, or the drop counting of a full channel.
P_FrameDropped ==
    /\ p_pc = "dropping"
    /\ dropped_frames' = on_frame_dropped(dropped_frames)
    /\ IF p_send = "Full"
       THEN /\ p_pc' = "count"
            /\ UNCHANGED p_observed
       ELSE /\ p_pc' = "idle"
            /\ p_observed' = 0
    /\ UNCHANGED <<outside_pipeline, handle_vars, chan, queued, worker_error, paused, pauses,
                   surfaces, discarded, frame_counter, p_send, p_fatal,
                   worker_vars, finisher_vars, history_vars>>

\* Building the RawFrame fails: texture clone, crop, or an empty buffer.
P_FrameBuildFails ==
    /\ p_pc = "arrive_error"
    /\ p_pc' = "halted"
    /\ p_fatal' = Fatal("capture", <<"frame">>)
    /\ UNCHANGED <<outside_pipeline, handle_vars, chan, queued, dropped_frames, worker_error, paused, pauses,
                   surfaces, discarded, frame_counter, p_observed, p_send,
                   worker_vars, finisher_vars, history_vars>>

\* frame_callback, first step: the error slot.
P_ArrivalReadsError ==
    /\ p_pc = "arrive_error"
    /\ IF read_worker_error(worker_error) # <<>>
       THEN /\ p_pc' = "halted"
            /\ p_fatal' = Fatal("encoder", read_worker_error(worker_error))
       ELSE /\ p_pc' = "arrive_add"
            /\ UNCHANGED p_fatal
    /\ UNCHANGED <<outside_pipeline, handle_vars, chan, queued, dropped_frames, worker_error, paused, pauses,
                   surfaces, discarded, frame_counter, p_observed, p_send,
                   worker_vars, finisher_vars, history_vars>>

\* A frame_callback that sends the frame without counting it first.
P_ArrivalSkipsAdd ==
    /\ p_pc = "arrive_add"
    /\ p_pc' = "arrive_send"
    /\ UNCHANGED <<outside_pipeline, handle_vars, chan, queued, dropped_frames, worker_error, paused,
                   pauses, surfaces, discarded, frame_counter, p_observed, p_send, p_fatal,
                   worker_vars, finisher_vars, history_vars>>

\* frame_callback: queued_frames.fetch_add(1).
P_ArrivalAddsQueued ==
    /\ p_pc = "arrive_add"
    /\ queued' = queued + 1
    /\ p_pc' = "arrive_send"
    /\ UNCHANGED <<outside_pipeline, handle_vars, chan, dropped_frames, worker_error, paused, pauses,
                   surfaces, discarded, frame_counter, p_observed, p_send, p_fatal,
                   worker_vars, finisher_vars, history_vars>>

\* frame_callback: sender.try_send(Frame).
P_TrySend ==
    /\ p_pc = "arrive_send"
    /\ p_send' = try_send(chan, receiver_alive)
    /\ p_pc' = "send_result"
    /\ IF p_send' = "Ok"
       THEN /\ chan' = Append(chan, FrameMessage(surfaces))
            /\ enqueued' = Append(enqueued, surfaces)
            /\ late_enqueues' = late_enqueues + (IF worker_error # <<>> THEN 1 ELSE 0)
            /\ UNCHANGED refused
       ELSE /\ refused' = IF p_send' = "Full" THEN refused \cup {surfaces} ELSE refused
            /\ UNCHANGED <<chan, enqueued, late_enqueues>>
    /\ UNCHANGED <<outside_pipeline, handle_vars, queued, dropped_frames, worker_error, paused, pauses,
                   surfaces, discarded, frame_counter, p_observed, p_fatal,
                   worker_vars, finisher_vars>>

\* frame_callback: the match on try_send's result.
P_SendResult ==
    /\ p_pc = "send_result"
    /\ CASE p_send = "Ok" ->
              /\ p_pc' = "count"
              /\ UNCHANGED queued
         [] p_send = "Full" ->
              /\ queued' = decrement_queued_frames(queued)
              /\ p_pc' = "dropping"
         [] OTHER ->
              /\ queued' = decrement_queued_frames(queued)
              /\ p_pc' = "disconnected"
    /\ UNCHANGED <<outside_pipeline, handle_vars, chan, dropped_frames, worker_error, paused, pauses,
                   surfaces, discarded, frame_counter, p_observed, p_send, p_fatal,
                   worker_vars, finisher_vars, history_vars>>

\* frame_callback on a disconnected channel: the worker's error, or a generic one.
P_DisconnectedError ==
    /\ p_pc = "disconnected"
    /\ p_pc' = "halted"
    /\ p_fatal' = Fatal("encoder", IF read_worker_error(worker_error) # <<>>
                                   THEN read_worker_error(worker_error)
                                   ELSE <<"disconnected">>)
    /\ UNCHANGED <<outside_pipeline, handle_vars, chan, queued, dropped_frames, worker_error, paused, pauses,
                   surfaces, discarded, frame_counter, p_observed, p_send,
                   worker_vars, finisher_vars, history_vars>>

\* on_frame_arrived: frame_counter.fetch_add(1) after the callback returned Ok.
P_CountFrame ==
    /\ p_pc = "count"
    /\ frame_counter' = frame_counter + 1
    /\ p_pc' = "idle"
    /\ p_observed' = 0
    /\ p_send' = "none"
    /\ UNCHANGED <<outside_pipeline, handle_vars, chan, queued, dropped_frames, worker_error, paused, pauses,
                   surfaces, discarded, p_fatal,
                   worker_vars, finisher_vars, history_vars>>

\* The capture ends between two surfaces: control.stop(), or the target closed.
P_CaptureEnds ==
    /\ p_pc = "idle"
    /\ p_pc' = "halted"
    /\ UNCHANGED <<outside_pipeline, handle_vars, chan, queued, dropped_frames, worker_error, paused, pauses,
                   surfaces, discarded, frame_counter, p_observed, p_send, p_fatal,
                   worker_vars, finisher_vars, history_vars>>

\* CaptureRuntimeHandle::pause stores the paused flag.
RuntimePause ==
    /\ p_pc \notin {"starting", "gone", "halted"}
    /\ ~paused
    /\ pauses < MaxResumes
    /\ paused' = TRUE
    /\ pauses' = pauses + 1
    /\ UNCHANGED <<outside_pipeline, handle_vars, chan, queued, dropped_frames, worker_error,
                   producer_vars, worker_vars, finisher_vars, history_vars>>

\* CaptureRuntimeHandle::resume clears the paused flag.
RuntimeResume ==
    /\ p_pc \notin {"starting", "gone", "halted"}
    /\ paused
    /\ paused' = FALSE
    /\ UNCHANGED <<outside_pipeline, handle_vars, chan, queued, dropped_frames, worker_error, pauses,
                   producer_vars, worker_vars, finisher_vars, history_vars>>

\* ------------------------------------------------ the encoder worker thread
\* FfmpegEncoderConsumer::new; on failure the thread returns at once.
W_CreateConsumer ==
    /\ w_pc = "new"
    /\ \E ok \in BOOLEAN :
         IF ok
         THEN /\ w_pc' = "recv"
              /\ UNCHANGED <<worker_error, w_exit>>
         ELSE /\ w_pc' = "done"
              /\ w_exit' = "new_failed"
              /\ worker_error' = set_worker_error(worker_error, "consumer_new")
    /\ UNCHANGED <<outside_pipeline, handle_vars, chan, queued, dropped_frames, paused, pauses,
                   producer_vars, w_frame, encoded, on_stop_calls,
                   finisher_vars, history_vars>>

\* A worker that takes the Stop message for one more thing to skip and goes
\* back to recv.
W_Receive_skips_stop ==
    /\ w_pc = "recv"
    /\ IF chan # <<>>
       THEN /\ chan' = recv(chan).rest
            /\ IF recv(chan).message.stop
               THEN UNCHANGED <<w_pc, w_exit, w_frame>>
               ELSE /\ w_pc' = "decrement"
                    /\ w_frame' = Some(recv(chan).message.frame)
                    /\ UNCHANGED w_exit
       ELSE /\ ~senders_alive
            /\ w_pc' = "stopping"
            /\ w_exit' = "disconnected"
            /\ UNCHANGED <<chan, w_frame>>
    /\ UNCHANGED <<outside_pipeline, handle_vars, queued, dropped_frames, worker_error, paused, pauses,
                   producer_vars, encoded, on_stop_calls,
                   finisher_vars, history_vars>>

\* receiver.recv(): the oldest message, or Err once the sender is gone.
W_Receive ==
    /\ w_pc = "recv"
    /\ IF chan # <<>>
       THEN /\ chan' = recv(chan).rest
            /\ IF recv(chan).message.stop
               THEN /\ w_pc' = "stopping"
                    /\ w_exit' = "stop"
                    /\ UNCHANGED w_frame
               ELSE /\ w_pc' = "decrement"
                    /\ w_frame' = Some(recv(chan).message.frame)
                    /\ UNCHANGED w_exit
       ELSE /\ ~senders_alive
            /\ w_pc' = "stopping"
            /\ w_exit' = "disconnected"
            /\ UNCHANGED <<chan, w_frame>>
    /\ UNCHANGED <<outside_pipeline, handle_vars, queued, dropped_frames, worker_error, paused, pauses,
                   producer_vars, encoded, on_stop_calls,
                   finisher_vars, history_vars>>

\* decrement_queued_frames, before the frame is encoded.
W_Decrement ==
    /\ w_pc = "decrement"
    /\ queued' = decrement_queued_frames(queued)
    /\ w_pc' = "encode"
    /\ UNCHANGED <<outside_pipeline, handle_vars, chan, dropped_frames, worker_error, paused, pauses,
                   producer_vars, w_frame, w_exit, encoded, on_stop_calls,
                   finisher_vars, history_vars>>

\* A worker that returns from its thread when on_frame fails, without
\* reaching on_stop.
W_Encode_returns_on_error ==
    /\ w_pc = "encode"
    /\ encoded' = Append(encoded, The(w_frame))
    /\ w_frame' = None
    /\ \E ok \in BOOLEAN :
         IF ok
         THEN /\ w_pc' = "recv"
              /\ UNCHANGED <<worker_error, w_exit>>
         ELSE /\ w_pc' = "done"
              /\ w_exit' = "encode_failed"
              /\ worker_error' = set_worker_error(worker_error, "on_frame")
    /\ UNCHANGED <<outside_pipeline, handle_vars, chan, queued, dropped_frames, paused, pauses,
                   producer_vars, on_stop_calls, finisher_vars, history_vars>>

\* consumer.on_frame(raw_frame); an error is recorded and ends the loop.
W_Encode ==
    /\ w_pc = "encode"
    /\ encoded' = Append(encoded, The(w_frame))
    /\ w_frame' = None
    /\ \E ok \in BOOLEAN :
         IF ok
         THEN /\ w_pc' = "recv"
              /\ UNCHANGED <<worker_error, w_exit>>
         ELSE /\ w_pc' = "stopping"
              /\ w_exit' = "encode_failed"
              /\ worker_error' = set_worker_error(worker_error, "on_frame")
    /\ UNCHANGED <<outside_pipeline, handle_vars, chan, queued, dropped_frames, paused, pauses,
                   producer_vars, on_stop_calls, finisher_vars, history_vars>>

\* consumer.on_stop(): finalize closes the video and hands the audio capture
\* to a detached thread; then the worker returns and drops the receiver.
W_Stop ==
    /\ w_pc = "stopping"
    /\ on_stop_calls' = on_stop_calls + 1
    /\ w_pc' = "done"
    /\ audio_finalize' = "spawned"
    /\ \E ok \in BOOLEAN :
         worker_error' = IF ok THEN worker_error
                         ELSE set_worker_error(worker_error, "on_stop")
    /\ UNCHANGED <<outside_pipeline, h_pc, h_via, h_callbacks, chan, queued, dropped_frames, paused, pauses,
                   producer_vars, w_frame, w_exit, encoded,
                   finisher_vars, history_vars>>

\* ------------------------------------------------ the runtime handle
\* CaptureControl::is_finished: the capture thread has ended.
is_finished(pc) == pc = "halted"

control_returns_at_once(pc) == TRUE

\* control.stop() and control.wait() (windows-capture) return once the capture
\* thread has ended: stop() asks it to end and joins it, wait() joins it.
control_joined(pc) == pc = "halted"

\* --------------------------------------------------- on_session_finished
\* finalize_encoder takes the callback out of the handle and calls it: the
\* blocking send of Stop, whose result is ignored.
F_SendStop ==
    /\ f_pc = "idle"
    /\ h_callbacks' = h_callbacks + 1
    /\ IF ~receiver_alive
       THEN UNCHANGED chan
       ELSE /\ Len(chan) < VIDEO_PIPELINE_QUEUE_CAPACITY
            /\ chan' = Append(chan, StopMessage)
    /\ f_pc' = "join"
    /\ UNCHANGED <<outside_pipeline, audio_finalize, queued, dropped_frames, worker_error,
                   paused, pauses, producer_vars, worker_vars, f_result, history_vars>>

\* The manager's stop() or cancel() calls stop() on the handle: it takes the
\* control, control.stop() returns, with or without an error, and
\* finalize_encoder is called.
H_Stop ==
    /\ h_pc = "held"
    /\ control_joined(p_pc)
    /\ h_pc' = "finalize"
    /\ h_via' = "stop"
    /\ F_SendStop

\* The manager found the runtime finished and calls wait() on the handle:
\* control.wait() returns and finalize_encoder is called.
H_Wait ==
    /\ h_pc = "held"
    /\ is_finished(p_pc)
    /\ control_joined(p_pc)
    /\ h_pc' = "finalize"
    /\ h_via' = "wait"
    /\ F_SendStop

F_ReportsUnjoined ==
    /\ f_pc = "join"
    /\ f_pc' = "report"
    /\ UNCHANGED <<outside_pipeline, handle_vars, chan, queued, dropped_frames, worker_error,
                   paused, pauses, producer_vars, worker_vars, f_result, history_vars>>

\* worker.join()
F_JoinWorker ==
    /\ f_pc = "join"
    /\ w_pc = "done"
    /\ f_pc' = "report"
    /\ UNCHANGED <<outside_pipeline, handle_vars, chan, queued, dropped_frames, worker_error, paused, pauses,
                   producer_vars, worker_vars, f_result, history_vars>>

\* take_worker_error decides the result and empties the slot; the callback
\* returns and with it stop() or wait(): the handle is gone.
F_TakeError ==
    /\ f_pc = "report"
    /\ h_pc' = "consumed"
    /\ f_result' = Some(IF worker_error # <<>>
                        THEN [kind |-> "Err", err |-> worker_error]
                        ELSE [kind |-> "Ok", err |-> <<>>])
    /\ worker_error' = <<>>
    /\ f_pc' = "done"
    /\ UNCHANGED <<outside_pipeline, h_via, h_callbacks, audio_finalize, chan, queued, dropped_frames, paused, pauses,
                   producer_vars, worker_vars, history_vars>>

NextPipeline ==
    \/ P_Started
    \/ P_StartFails
    \/ P_SurfaceArrives
    \/ P_GateReadsError
    \/ P_GateLoadsQueued
    \/ P_FrameDropped
    \/ P_FrameBuildFails
    \/ P_ArrivalReadsError
    \/ P_ArrivalAddsQueued
    \/ P_TrySend
    \/ P_SendResult
    \/ P_DisconnectedError
    \/ P_CountFrame
    \/ P_CaptureEnds
    \/ RuntimePause
    \/ RuntimeResume
    \/ W_CreateConsumer
    \/ W_Receive
    \/ W_Decrement
    \/ W_Encode
    \/ W_Stop
    \/ H_Stop
    \/ H_Wait
    \/ F_JoinWorker
    \/ F_TakeError

SpecPipeline == Init /\ [][NextPipeline]_vars

\* The worker is a thread of its own: the scheduler runs it whenever it can
\* take a step, and the encoder calls it makes return.
WorkerStep == W_CreateConsumer \/ W_Receive \/ W_Decrement \/ W_Encode \/ W_Stop

SpecPipelineFair == SpecPipeline /\ WF_vars(WorkerStep)

\* The thread inside manager.stop() (or the operation that found the runtime
\* finished): the call of stop() or wait() on the handle with its blocking
\* send of Stop, the join of the worker and the report.
StopStep == H_Stop \/ H_Wait \/ F_JoinWorker \/ F_TakeError

\* Stopping: the worker thread and the stopping thread are both scheduled.
SpecStopFair == SpecPipeline /\ WF_vars(WorkerStep) /\ WF_vars(StopStep)

\* ------------------------------------------------ a burst on a stalled worker
\* The surfaces of the burst.
BurstFrames == 20

B_SurfaceArrives == SurfaceArrives(BurstFrames)

\* The producer receives the burst while the worker, once it has taken a
\* frame, stays inside consumer.on_frame: W_Encode never completes.
NextBurst ==
    \/ P_Started
    \/ B_SurfaceArrives
    \/ P_GateReadsError
    \/ P_GateLoadsQueued
    \/ P_FrameDropped
    \/ P_ArrivalReadsError
    \/ P_ArrivalAddsQueued
    \/ P_TrySend
    \/ P_SendResult
    \/ P_DisconnectedError
    \/ P_CountFrame
    \/ W_CreateConsumer
    \/ W_Receive
    \/ W_Decrement

SpecBurst == Init /\ [][NextBurst]_vars

\* ------------------------------------------- FfmpegEncoderConsumer: code
\* frame_timestamp_ms: the surface's SystemRelativeTime, in 100 ns units, as
\* whole milliseconds; a non-positive duration gives 0.
frame_timestamp_ms(raw_duration_100ns) ==
    IF raw_duration_100ns <= 0 THEN 0 ELSE raw_duration_100ns \div HundredNsPerMs

saturating_sub(a, b) == IF a > b THEN a - b ELSE 0

RawFrame(kind, timestamp_ms) == [kind |-> kind, timestamp_ms |-> timestamp_ms]

has_cpu_data(frame) == frame.kind = "cpu"

has_gpu_texture(frame) == frame.kind = "gpu"

is_valid(frame) == has_cpu_data(frame) \/ has_gpu_texture(frame)

EncoderContext(input_pipeline) ==
    [input_pipeline |-> input_pipeline, first_timestamp_ms |-> None, last_pts |-> -1]

\* A variant of the PTS rule that bumps only when the frame is older.
next_pts_keeps_ties(rel_ts_ms, last_pts) ==
    IF rel_ts_ms < last_pts THEN last_pts + 1 ELSE rel_ts_ms

next_pts(rel_ts_ms, last_pts) ==
    IF rel_ts_ms <= last_pts THEN last_pts + 1 ELSE rel_ts_ms

\* The PTS lines shared by encode_frame (CPU) and encode_gpu_texture_frame.
\* The u64 to i64 cast of the difference keeps its value: timestamps come from
\* frame_timestamp_ms and stay below 2^63 / 10000.
assign_pts(c, frame) ==
    LET first_ts == IF c.first_timestamp_ms = None THEN frame.timestamp_ms
                    ELSE The(c.first_timestamp_ms)
        rel_ts_ms == saturating_sub(frame.timestamp_ms, first_ts)
        pts == next_pts(rel_ts_ms, c.last_pts)
    IN  [ctx |-> [c EXCEPT !.first_timestamp_ms = Some(first_ts), !.last_pts = pts],
         pts |-> pts]

\* label: the value on_frame stored in the live label, if it stored one;
\* inits: how many times it called initialize; selected: the encoder kept.
EncOutcome(c, res, emitted) ==
    [ctx |-> c, result |-> res, emitted |-> emitted, label |-> None, inits |-> 0,
     selected |-> None]

default_codec(format) == IF format = "WebM" THEN "Vp9" ELSE "H264"

HardwareOrder_fixed(preference) ==
    IF preference = "Software" THEN <<>> ELSE <<"nvenc", "amf", "qsv">>

HardwareOrder(preference) ==
    CASE preference = "Nvenc" -> <<"nvenc", "amf", "qsv">>
      [] preference = "Amf" -> <<"amf", "nvenc", "qsv">>
      [] preference = "Qsv" -> <<"qsv", "nvenc", "amf">>
      [] preference = "Software" -> <<>>
      [] OTHER -> <<"nvenc", "amf", "qsv">>

\* An encoder is named by its family and backend: <<"h264", "nvenc">> is
\* h264_nvenc, <<"h264", "libx264">> is libx264.
HardwareNames(family, preference) ==
    [i \in DOMAIN HardwareOrder(preference) |-> <<family, HardwareOrder(preference)[i]>>]

encoder_candidates(codec, allow_fallback, preference, gpu_surface_only) ==
    CASE codec = "H264" ->
            HardwareNames("h264", preference)
            \o (IF gpu_surface_only THEN <<>>
                ELSE <<<<"h264", "libx264">>, <<"h264", "h264">>>>
                     \o (IF allow_fallback THEN <<<<"mpeg4", "mpeg4">>>> ELSE <<>>))
      [] codec = "H265" ->
            HardwareNames("hevc", preference)
            \o (IF gpu_surface_only THEN <<>>
                ELSE <<<<"hevc", "libx265">>, <<"hevc", "hevc">>>>)
      [] OTHER -> <<<<"vp9", "libvpx-vp9">>, <<"vp9", "vp9">>>>

selected_backend_label_cpu(encoder_name) == "CPU"

selected_backend_label(encoder_name) ==
    CASE encoder_name[2] = "nvenc" -> "NVENC"
      [] encoder_name[2] = "amf" -> "AMF"
      [] encoder_name[2] = "qsv" -> "QSV"
      [] OTHER -> "CPU"

selected_codec_label(codec) ==
    CASE codec = "H264" -> "H.264"
      [] codec = "H265" -> "H.265"
      [] OTHER -> "VP9"

\* format!("{backend_label} / {live_codec_label}")
LiveLabel(backend_label, codec_label) == [backend |-> backend_label, codec |-> codec_label]

\* initialize: env.available are the encoders that FFmpeg finds and opens;
\* env.init_res is "OutputError" if a step before the candidates fails,
\* "HeaderError" if one between the label and the context does (add_stream,
\* write_header, the scaler), "AudioStartError" if the audio capture, started
\* after the context is stored, fails.
initialize(config, frame, env) ==
    LET gpu_surface_only == has_gpu_texture(frame) /\ ~has_cpu_data(frame)
        codec_kind == IF config.codec # None THEN The(config.codec)
                      ELSE default_codec(config.format)
        allow_fallback == config.codec = None
        candidates == encoder_candidates(codec_kind, allow_fallback,
                                         config.video_encoder_preference, gpu_surface_only)
        opening == {i \in DOMAIN candidates : candidates[i] \in env.available}
        encoder_name == candidates[CHOOSE i \in opening : \A j \in opening : i <= j]
        backend_label == selected_backend_label(encoder_name)
        c == EncoderContext(IF gpu_surface_only THEN "GpuTextureD3d11" ELSE "Cpu")
        failed == [EncOutcome(None, "Err", None) EXCEPT !.inits = 1]
        labelled == [failed EXCEPT
                        !.label = Some(LiveLabel(backend_label,
                                                 selected_codec_label(codec_kind))),
                        !.selected = Some(encoder_name)]
    IN  IF env.init_res = "OutputError" \/ candidates = <<>> \/ opening = {}
        THEN failed
        ELSE IF gpu_surface_only /\ backend_label = "CPU"
        THEN failed
        ELSE CASE env.init_res = "HeaderError" -> labelled
               [] env.init_res = "AudioStartError" -> [labelled EXCEPT !.ctx = Some(c)]
               [] OTHER -> [labelled EXCEPT !.ctx = Some(c), !.result = "Ok"]

\* encode_frame: env.prepare_ok stands for the steps before the PTS lines
\* (colour conversion, AVBufferRef creation is after them on the GPU path),
\* env.send_ok for send_frame and drain_packets after them.
encode_frame(c, frame, env) ==
    LET fits == IF c.input_pipeline = "Cpu" THEN has_cpu_data(frame)
                ELSE has_gpu_texture(frame)
        a == assign_pts(c, frame)
        entry == [timestamp_ms |-> frame.timestamp_ms, pts |-> a.pts,
                  path |-> c.input_pipeline]
    IN  IF ~fits \/ (c.input_pipeline = "Cpu" /\ ~env.prepare_ok)
        THEN EncOutcome(Some(c), "Err", None)
        ELSE EncOutcome(Some(a.ctx), IF env.send_ok THEN "Ok" ELSE "Err", Some(entry))

on_frame_reinitializes(config, cx, frame, env) ==
    IF ~is_valid(frame) THEN EncOutcome(cx, "Ok", None)
    ELSE LET i == initialize(config, frame, env)
         IN  IF i.result = "Err" THEN i
             ELSE [encode_frame(The(i.ctx), frame, env) EXCEPT
                      !.label = i.label, !.inits = i.inits, !.selected = i.selected]

on_frame(config, cx, frame, env) ==
    IF ~is_valid(frame) THEN EncOutcome(cx, "Ok", None)
    ELSE LET i == IF cx = None THEN initialize(config, frame, env)
                  ELSE EncOutcome(cx, "Ok", None)
         IN  IF i.result = "Err" THEN i
             ELSE [encode_frame(The(i.ctx), frame, env) EXCEPT
                      !.label = i.label, !.inits = i.inits, !.selected = i.selected]

\* ------------------------------------------------- the encoder's inputs
RawDurations == {k * (HundredNsPerMs \div 2) : k \in -1..(2 * MaxStamp)}

FrameKinds == {"cpu", "gpu", "invalid"}

VideoEncoderPreferences == {"Auto", "Nvenc", "Amf", "Qsv", "Software"}

\* A hardware and the software preference with the container's default codec,
\* the WebM default (VP9) and a fixed codec.
EncoderConfigs ==
    {[format |-> "Mp4", codec |-> None, video_encoder_preference |-> "Nvenc"],
     [format |-> "Mp4", codec |-> None, video_encoder_preference |-> "Software"],
     [format |-> "WebM", codec |-> None, video_encoder_preference |-> "Auto"],
     [format |-> "Mkv", codec |-> Some("H265"), video_encoder_preference |-> "Qsv"]}

\* What FFmpeg can open on the machine.
AvailableChoices ==
    {{},
     {<<"h264", "nvenc">>, <<"h264", "libx264">>},
     {<<"h264", "amf">>, <<"h264", "qsv">>, <<"hevc", "nvenc">>},
     {<<"h264", "libx264">>, <<"hevc", "libx265">>, <<"vp9", "libvpx-vp9">>},
     {<<"mpeg4", "mpeg4">>, <<"vp9", "vp9">>}}

EncoderEnvs ==
    [available : AvailableChoices,
     init_res : {"Ok", "AudioStartError", "HeaderError", "OutputError"},
     prepare_ok : BOOLEAN, send_ok : BOOLEAN]

\* The answers on_frame can ask for: none for an invalid frame, those of
\* initialize only while there is no context.
EnvsFor(cx, frame) ==
    {env \in EncoderEnvs :
        /\ (~is_valid(frame) \/ cx # None) => (env.available = {} /\ env.init_res = "Ok")
        /\ ~is_valid(frame) => (env.prepare_ok /\ env.send_ok)}

\* The worker builds the consumer; new() clears the live label. If new()
\* fails the worker returns without a consumer.
E_New ==
    /\ enc_state = "unborn"
    /\ \E config \in EncoderConfigs, new_ok \in BOOLEAN :
         /\ enc_config' = IF new_ok THEN Some(config) ELSE None
         /\ enc_state' = IF new_ok THEN "open" ELSE "unbuilt"
    /\ live_label' = None
    /\ UNCHANGED <<outside_encoder, enc_ctx, enc_calls, enc_valid, enc_inits,
                   enc_selected, pts_log, enc_final>>

\* The worker passes a frame to on_frame; an error ends its loop.
E_OnFrame ==
    /\ enc_state = "open"
    /\ enc_calls < MaxEncoded
    /\ \E raw \in RawDurations, kind \in FrameKinds :
       \E env \in EnvsFor(enc_ctx, RawFrame(kind, frame_timestamp_ms(raw))) :
         LET frame == RawFrame(kind, frame_timestamp_ms(raw))
             o == on_frame(The(enc_config), enc_ctx, frame, env)
         IN  /\ enc_ctx' = o.ctx
             /\ enc_state' = IF o.result = "Ok" THEN "open" ELSE "failed"
             /\ live_label' = IF o.label = None THEN live_label ELSE o.label
             /\ enc_valid' = IF is_valid(frame) THEN enc_valid + 1 ELSE enc_valid
             /\ enc_inits' = enc_inits + o.inits
             /\ enc_selected' = IF o.inits = 0 THEN enc_selected ELSE o.selected
             /\ pts_log' = IF o.emitted = None THEN pts_log
                           ELSE Append(pts_log, The(o.emitted))
    /\ enc_calls' = enc_calls + 1
    /\ UNCHANGED <<outside_encoder, enc_config, enc_final>>

\* The steps of finalize, in the order of its code.
FinalizeSteps ==
    <<"send_eof", "drain_packets", "write_trailer", "drop_ctx",
      "finalize_and_mux_detached", "set_live_video_encoder_label">>

\* The answers finalize can get from the encoder and the container.
FinalizeEnvs == [send_eof_ok : BOOLEAN, drain_ok : BOOLEAN, trailer_ok : BOOLEAN]

\* Without a context finalize asks the encoder nothing; after a failed step
\* it asks nothing more.
FinalizeEnvsFor(cx) ==
    {env \in FinalizeEnvs :
        /\ cx = None => (env.send_eof_ok /\ env.drain_ok /\ env.trailer_ok)
        /\ ~env.send_eof_ok => (env.drain_ok /\ env.trailer_ok)
        /\ ~env.drain_ok => env.trailer_ok}

\* A finalize that goes on to the next step after a failed one and keeps the
\* first error.
finalize_attempts_all(cx, audio_capture, env) ==
    LET video == IF cx = None THEN <<>>
                 ELSE <<"send_eof", "drain_packets", "write_trailer">>
        video_error ==
            IF cx = None THEN None
            ELSE IF ~env.send_eof_ok THEN Some("send_eof")
            ELSE IF ~env.drain_ok THEN Some("drain_packets")
            ELSE IF ~env.trailer_ok THEN Some("write_trailer")
            ELSE None
        audio == IF audio_capture = None THEN <<>>
                 ELSE <<"finalize_and_mux_detached">>
    IN  [ctx |-> None, audio_capture |-> None, label |-> None,
         steps |-> video \o <<"drop_ctx">> \o audio
                     \o <<"set_live_video_encoder_label">>,
         video_error |-> video_error,
         result |-> IF video_error = None THEN "Ok" ELSE "Err"]

\* finalize: with a context, send_eof, then drain_packets if that succeeded,
\* then write_trailer if that succeeded (an else-if chain); then, whatever
\* happened, the context is dropped, the audio service is taken and finalized
\* on its own thread, and the live label is cleared. The result is the error
\* of the step that failed, if one did.
finalize(cx, audio_capture, env) ==
    LET video == IF cx = None THEN <<>>
                 ELSE IF ~env.send_eof_ok THEN <<"send_eof">>
                 ELSE IF ~env.drain_ok THEN <<"send_eof", "drain_packets">>
                 ELSE <<"send_eof", "drain_packets", "write_trailer">>
        video_error ==
            IF cx = None THEN None
            ELSE IF ~env.send_eof_ok THEN Some("send_eof")
            ELSE IF ~env.drain_ok THEN Some("drain_packets")
            ELSE IF ~env.trailer_ok THEN Some("write_trailer")
            ELSE None
        audio == IF audio_capture = None THEN <<>>
                 ELSE <<"finalize_and_mux_detached">>
    IN  [ctx |-> None, audio_capture |-> None, label |-> None,
         steps |-> video \o <<"drop_ctx">> \o audio
                     \o <<"set_live_video_encoder_label">>,
         video_error |-> video_error,
         result |-> IF video_error = None THEN "Ok" ELSE "Err"]

\* on_stop is finalize. The consumer holds the audio service new() built
\* until finalize takes it, and on_stop is called once.
E_OnStop ==
    /\ enc_state \in {"open", "failed"}
    /\ \E env \in FinalizeEnvsFor(enc_ctx) :
         LET o == finalize(enc_ctx, Some("AudioCaptureService"), env)
         IN  /\ enc_ctx' = o.ctx
             /\ live_label' = o.label
             /\ enc_final' = Some([had_ctx |-> enc_ctx # None, env |-> env,
                                   steps |-> o.steps,
                                   video_error |-> o.video_error,
                                   result |-> o.result])
    /\ enc_state' = "stopped"
    /\ UNCHANGED <<outside_encoder, enc_config, enc_calls, enc_valid, enc_inits,
                   enc_selected, pts_log>>

NextEncoder ==
    \/ E_New
    \/ E_OnFrame
    \/ E_OnStop

SpecEncoder == Init /\ [][NextEncoder]_vars

\* ------------------------------------ Region::validate_against_target alone
\* Regions around the edges of the targets and of the u32 range.
RegionChoices ==
    {Region(x, y, w, h) : x \in {0, 1910, U32Max}, y \in {0, 1075, U32Max},
                          w \in {0, 2, 10, 80, TargetWidth, U32Max},
                          h \in {0, 2, 5, 40, TargetHeight, U32Max}}

\* The monitor of the manager tests and a target as large as u32 allows.
TargetChoices ==
    ProviderTargets \cup {[id |-> MockTargetId + 1, width |-> U32Max, height |-> U32Max]}

\* One call of validate_against_target, in a build with or without overflow checks.
Validate ==
    /\ \E region \in RegionChoices, target \in TargetChoices, checks \in BOOLEAN :
         /\ v_region' = region
         /\ v_target' = target
         /\ v_checks' = checks
         /\ v_result' = Some(validate_against_target(region, target, checks))
    /\ UNCHANGED outside_validate

NextValidate ==
    \/ Validate

SpecValidate == Init /\ [][NextValidate]_vars


\* ------------------------------------------------ audio service actions
AudioConfigs == [capture_system_audio : BOOLEAN, capture_microphone_audio : BOOLEAN]

\* AudioCaptureServiceImpl::new.
A_New ==
    /\ a_pc = "none"
    /\ \E config \in AudioConfigs : a_config' = config
    /\ a_pc' = "new"
    /\ UNCHANGED <<a_captures, a_controller, a_elapsed, a_buffers, a_heard, a_captured, a_files, a_mux,
                   a_result, a_update>>
    /\ UNCHANGED outside_audio

\* AudioCaptureServiceImpl::start: both tracks started and the controller
\* published, or the state reset when a required track has no device.
A_Start ==
    /\ a_pc = "new"
    /\ \E sys_ok \in BOOLEAN, mic_ok \in BOOLEAN :
         LET system == start_capture_track(a_config.capture_system_audio,
                                           a_config.capture_system_audio, sys_ok, sys_ok)
             microphone == start_capture_track(a_config.capture_microphone_audio,
                                               a_config.capture_microphone_audio, mic_ok, mic_ok)
             captures == [k \in TrackKinds |->
                            IF k = "system" THEN system.capture ELSE microphone.capture]
         IN  IF system.result = Ok /\ microphone.result = Ok
             THEN /\ a_captures' = captures
                  /\ a_controller' = Some(controller_of(captures))
                  /\ a_pc' = "started"
             ELSE /\ a_captures' = [k \in TrackKinds |-> None]
                  /\ a_controller' = None
                  /\ a_pc' = "failed"
    /\ UNCHANGED <<a_config, a_elapsed, a_buffers, a_heard, a_captured, a_files, a_mux, a_result, a_update>>
    /\ UNCHANGED outside_audio

\* Time passes since recording_started_at.
A_Tick ==
    /\ a_pc = "started"
    /\ a_elapsed < MaxElapsed
    /\ a_elapsed' = a_elapsed + 1
    /\ UNCHANGED <<a_pc, a_config, a_captures, a_controller, a_buffers, a_heard, a_captured, a_files,
                   a_mux, a_result, a_update>>
    /\ UNCHANGED outside_audio

\* One buffer of a capture worker's loop.
A_Buffer ==
    /\ a_pc = "started"
    /\ a_buffers < MaxBuffers
    /\ \E k \in TrackKinds, bytes \in {0, BufferBytes}, silent \in BOOLEAN, null_ptr \in BOOLEAN :
         /\ a_captures[k] # None
         /\ (bytes = 0) => (~silent /\ ~null_ptr)
         /\ a_captures' = [a_captures EXCEPT ![k] =
                Some(process_buffer(The(a_captures[k]), a_elapsed, bytes, silent, null_ptr))]
         /\ a_heard' = [a_heard EXCEPT ![k] = a_heard[k] \/ The(a_captures[k]).enabled]
         /\ a_captured' = [a_captured EXCEPT ![k] =
                IF a_config_enables(a_config, k) \/ a_heard[k] \/ The(a_captures[k]).enabled
                THEN @ + bytes ELSE @]
    /\ a_buffers' = a_buffers + 1
    /\ UNCHANGED <<a_pc, a_config, a_controller, a_elapsed, a_files, a_mux, a_result, a_update>>
    /\ UNCHANGED outside_audio

\* The update_live_audio_capture command, at any time.
A_Update ==
    /\ a_pc # "none"
    /\ \E system \in BOOLEAN, microphone \in BOOLEAN :
         LET out == update_live_audio_capture(a_controller, a_captures, system, microphone)
         IN  /\ a_captures' = out.captures
             /\ a_update' = Some(out.result)
    /\ UNCHANGED <<a_pc, a_config, a_controller, a_elapsed, a_buffers, a_heard, a_captured, a_files,
                   a_mux, a_result>>
    /\ UNCHANGED outside_audio

\* finalize_and_mux up to its mux result: a service that never started only
\* resets and leaves the files as the encoder left them (nothing at the temp
\* path when the encoder never initialized, its start() never called);
\* otherwise the workers are stopped, the tracks chosen and muxed.
A_FinalizeAndMux ==
    /\ a_pc \in {"new", "started", "failed"}
    /\ IF a_pc = "started"
       THEN \E disk \in DiskStates, env \in MuxEnvsFor(a_captures) :
              LET out == finalize_and_mux(a_config, a_captures, written_payload(a_captures),
                                          disk, env)
              IN  /\ a_files' = out.files
                  /\ a_mux' = out.mux
                  /\ a_result' = Some(out.result)
                  /\ a_pc' = "muxed"
                  /\ UNCHANGED <<a_captures, a_controller>>
       ELSE /\ a_result' = Some(Ok)
            /\ a_captures' = [k \in TrackKinds |-> None]
            /\ a_controller' = None
            /\ a_pc' = "done"
            /\ \E disk \in DiskStates :
                 /\ (a_pc = "new") => (disk.temp = "absent")
                 /\ a_files' = disk
            /\ UNCHANGED a_mux
    /\ UNCHANGED <<a_config, a_elapsed, a_buffers, a_heard, a_captured, a_update>>
    /\ UNCHANGED outside_audio

\* reset_state at the end of finalize_and_mux.
A_ResetState ==
    /\ a_pc = "muxed"
    /\ a_controller' = None
    /\ a_captures' = [k \in TrackKinds |-> None]
    /\ a_pc' = "done"
    /\ UNCHANGED <<a_config, a_elapsed, a_buffers, a_heard, a_captured, a_files, a_mux,
                   a_result, a_update>>
    /\ UNCHANGED outside_audio

NextAudio ==
    \/ A_New
    \/ A_Start
    \/ A_Tick
    \/ A_Buffer
    \/ A_Update
    \/ A_FinalizeAndMux
    \/ A_ResetState

SpecAudio == Init /\ [][NextAudio]_vars


\* ------------------------------------------------ texture reference actions
\* The frames of a list of ids dropped where they lie.
DropAll(frames, ids, fate) ==
    [f \in DOMAIN frames |->
        IF \E i \in 1..Len(ids) : ids[i] = f THEN drop_raw_frame(frames[f], fate)
        ELSE frames[f]]

\* on_frame_arrived builds the RawFrame and frame_callback tries to enqueue it:
\* refused after a worker error, by a full channel or by a dropped receiver,
\* the message and its frame are dropped.
T_FrameArrives ==
    /\ ~t_stop_sent
    /\ Len(t_frames) < MaxTextures
    /\ \E gpu \in BOOLEAN, sized \in BOOLEAN :
         LET fr == IF gpu THEN from_gpu_texture(sized) ELSE RawFrame_new(sized)
             id == Len(t_frames) + 1
         IN  IF t_worker = "failed"
             THEN /\ t_frames' = Append(t_frames, drop_raw_frame(fr, "refused_error"))
                  /\ t_chan' = t_chan
             ELSE IF t_worker = "exited"
             THEN /\ t_frames' = Append(t_frames, drop_raw_frame(fr, "refused_disconnected"))
                  /\ t_chan' = t_chan
             ELSE IF Len(t_chan) >= TextureQueue
             THEN /\ t_frames' = Append(t_frames, drop_raw_frame(fr, "refused_full"))
                  /\ t_chan' = t_chan
             ELSE /\ t_frames' = Append(t_frames, [fr EXCEPT !.fate = "channel"])
                  /\ t_chan' = Append(t_chan, id)
    /\ UNCHANGED <<t_held, t_worker, t_pipeline, t_stop_sent>>
    /\ UNCHANGED outside_texture

\* session_finished_callback sends Stop (id 0) once the producer has ended.
T_SendStop ==
    /\ ~t_stop_sent
    /\ t_stop_sent' = TRUE
    /\ t_chan' = IF t_worker = "exited" THEN t_chan ELSE Append(t_chan, 0)
    /\ UNCHANGED <<t_frames, t_held, t_worker, t_pipeline>>
    /\ UNCHANGED outside_texture

\* receiver.recv() in the worker loop: a frame, or Stop, which ends the loop.
T_Receive ==
    /\ t_worker = "running"
    /\ t_held = None
    /\ t_chan # <<>>
    /\ t_chan' = Tail(t_chan)
    /\ IF Head(t_chan) = 0
       THEN /\ t_worker' = "stopping"
            /\ UNCHANGED <<t_frames, t_held>>
       ELSE /\ t_held' = Some(Head(t_chan))
            /\ t_frames' = [t_frames EXCEPT ![Head(t_chan)].fate = "worker"]
            /\ UNCHANGED t_worker
    /\ UNCHANGED <<t_pipeline, t_stop_sent>>
    /\ UNCHANGED outside_texture

\* consumer.on_frame(raw_frame); an error is stored and ends the loop.
T_OnFrame ==
    /\ t_worker = "running"
    /\ t_held # None
    /\ \E env \in TextureEnvsFor(t_pipeline, t_frames[The(t_held)]) :
         LET out == on_frame_texture(t_pipeline, t_frames[The(t_held)], env)
         IN  /\ t_frames' = [t_frames EXCEPT ![The(t_held)] = out.frame]
             /\ t_pipeline' = out.pipeline
             /\ t_worker' = IF out.result = "Ok" THEN "running" ELSE "failed"
    /\ t_held' = None
    /\ UNCHANGED <<t_chan, t_stop_sent>>
    /\ UNCHANGED outside_texture

\* The encoder is done with a submitted frame and unreferences its buffer.
T_EncoderReleases ==
    /\ t_worker \in {"running", "failed", "stopping"}
    /\ \E f \in DOMAIN t_frames :
         /\ t_frames[f].buffer_refs > 0
         /\ t_frames' = [t_frames EXCEPT ![f] = buffer_unref(@)]
    /\ UNCHANGED <<t_chan, t_held, t_worker, t_pipeline, t_stop_sent>>
    /\ UNCHANGED outside_texture

\* The worker leaves its loop: on_stop closes the encoder, which frees the
\* buffers it still holds, and the receiver is dropped with the frames left
\* in the channel.
T_WorkerExits ==
    /\ t_worker \in {"failed", "stopping"}
    /\ LET closed == [f \in DOMAIN t_frames |->
                        IF t_frames[f].buffer_refs > 0 THEN buffer_unref(t_frames[f])
                        ELSE t_frames[f]]
       IN  t_frames' = DropAll(closed, SelectSeq(t_chan, LAMBDA id : id # 0),
                               "left_in_channel")
    /\ t_chan' = <<>>
    /\ t_worker' = "exited"
    /\ UNCHANGED <<t_held, t_pipeline, t_stop_sent>>
    /\ UNCHANGED outside_texture

NextTexture ==
    \/ T_FrameArrives
    \/ T_SendStop
    \/ T_Receive
    \/ T_OnFrame
    \/ T_EncoderReleases
    \/ T_WorkerExits

SpecTexture == Init /\ [][NextTexture]_vars

\* ============================================================================
\* Pure functions: should_prefer_gpu_frames_with_flag (capture/manager.rs),
\* normalize_native_region_for_target (commands.rs) and encoder_candidates
\* (encoder/consumer.rs), each applied to inputs drawn from bounded sets.
\* ============================================================================
\* EncoderConfig::effective_codec.
effective_codec(config) ==
    IF config.codec # None THEN The(config.codec) ELSE default_codec(config.format)

should_prefer_gpu_frames_ignoring_crop(encoder_config, crop_region, d3d11_input_enabled) ==
    IF ~d3d11_input_enabled THEN FALSE
    ELSE IF effective_codec(encoder_config) = "Vp9" THEN FALSE
    ELSE encoder_config.video_encoder_preference \in {"Nvenc", "Amf", "Qsv"}

should_prefer_gpu_frames_with_flag(encoder_config, crop_region, d3d11_input_enabled) ==
    IF ~d3d11_input_enabled THEN FALSE
    ELSE IF crop_region # None THEN FALSE
    ELSE IF effective_codec(encoder_config) = "Vp9" THEN FALSE
    ELSE encoder_config.video_encoder_preference \in {"Nvenc", "Amf", "Qsv"}

\* The coordinates of normalize_native_region_for_target are u32 in the code;
\* the model gives them CoordBits bits, wide enough for the 3840 x 2160 target
\* of the tests, and keeps the saturation at the largest value.
CoordBits == 13
CoordMax == 2 ^ CoordBits - 1

saturating_add(a, b) == IF a + b > CoordMax THEN CoordMax ELSE a + b

min(a, b) == IF a <= b THEN a ELSE b

clamp(v, lo, hi) == IF v < lo THEN lo ELSE IF v > hi THEN hi ELSE v

scale_coordinate_truncating(value, source_extent, target_extent) ==
    min((value * target_extent) \div source_extent, CoordMax)

\* ((value as f64 * target_extent as f64) / source_extent as f64).round() as u32:
\* the nearest integer, halves away from zero, saturating at the largest
\* value. The products of the model stay below 2^52, where f64 is exact.
scale_coordinate(value, source_extent, target_extent) ==
    min((2 * value * target_extent + source_extent) \div (2 * source_extent), CoordMax)

normalize_native_region_for_target(selected_region, target) ==
    IF target.width = 0 \/ target.height = 0 \/ target.screen_width = 0
       \/ target.screen_height = 0
    THEN [kind |-> "Err", err |-> "InvalidTarget"]
    ELSE IF selected_region.width = 0 \/ selected_region.height = 0
    THEN [kind |-> "Err", err |-> "InvalidRegion"]
    ELSE LET source_start_x == min(selected_region.x, saturating_sub(target.screen_width, 1))
             source_start_y == min(selected_region.y, saturating_sub(target.screen_height, 1))
             source_end_x == clamp(saturating_add(selected_region.x, selected_region.width),
                                   saturating_add(source_start_x, 1), target.screen_width)
             source_end_y == clamp(saturating_add(selected_region.y, selected_region.height),
                                   saturating_add(source_start_y, 1), target.screen_height)
             mapped_start_x == min(scale_coordinate(source_start_x, target.screen_width,
                                                    target.width), target.width - 1)
             mapped_start_y == min(scale_coordinate(source_start_y, target.screen_height,
                                                    target.height), target.height - 1)
             mapped_end_x == clamp(scale_coordinate(source_end_x, target.screen_width,
                                                    target.width),
                                   saturating_add(mapped_start_x, 1), target.width)
             mapped_end_y == clamp(scale_coordinate(source_end_y, target.screen_height,
                                                    target.height),
                                   saturating_add(mapped_start_y, 1), target.height)
         IN  [kind |-> "Ok",
              region |-> Region(mapped_start_x, mapped_start_y,
                                saturating_sub(mapped_end_x, mapped_start_x),
                                saturating_sub(mapped_end_y, mapped_start_y))]

\* ------------------------------------------------------ pure function calls
OutputFormats == {"Mp4", "Mkv", "WebM"}

VideoCodecs == {"H264", "H265", "Vp9"}

\* Every format, codec choice and preference of an EncoderConfig.
PreferenceConfigs ==
    [format : OutputFormats, codec : {None} \cup {Some(c) : c \in VideoCodecs},
     video_encoder_preference : VideoEncoderPreferences]

\* should_prefer_gpu_frames_with_flag on one configuration.
F_ShouldPreferGpuFrames ==
    /\ f_call = None
    /\ \E config \in PreferenceConfigs,
          crop \in {None, Some(Region(0, 0, 100, 100)), Some(Region(0, 0, 0, 0))},
          flag \in BOOLEAN :
         f_call' = Some([fn |-> "should_prefer_gpu_frames_with_flag",
                         config |-> config, crop_region |-> crop,
                         d3d11_input_enabled |-> flag,
                         result |-> should_prefer_gpu_frames_with_flag(config, crop, flag)])
    /\ UNCHANGED outside_functions

\* Selections inside, across and beyond the screen, up to the largest value.
SelectionChoices ==
    {Region(x, y, w, h) : x \in {0, 1, 120, 1910, CoordMax}, y \in {0, 45, 1075},
                          w \in {0, 1, 80, 600, CoordMax}, h \in {0, 1, 40, 300}}

\* Targets of the tests (scaled by two, unscaled, a zero dimension), a target
\* smaller than its screen, one of a single pixel and the other zero dimensions.
NativeTargets ==
    {[width |-> w, height |-> h, screen_width |-> sw, screen_height |-> sh] :
        <<w, h, sw, sh>> \in {<<3840, 2160, 1920, 1080>>, <<1920, 1080, 1920, 1080>>,
                              <<1920, 1080, 0, 1080>>, <<1280, 720, 1920, 1080>>,
                              <<1, 1, 1920, 1080>>, <<0, 1080, 1920, 1080>>,
                              <<1920, 0, 1920, 1080>>, <<1920, 1080, 1920, 0>>}}

\* normalize_native_region_for_target on one selection and target.
F_NormalizeRegion ==
    /\ f_call = None
    /\ \E selection \in SelectionChoices, target \in NativeTargets :
         f_call' = Some([fn |-> "normalize_native_region_for_target",
                         selected_region |-> selection, target |-> target,
                         result |-> normalize_native_region_for_target(selection, target)])
    /\ UNCHANGED outside_functions

\* encoder_candidates on one codec, preference and input mode.
F_EncoderCandidates ==
    /\ f_call = None
    /\ \E codec \in VideoCodecs, allow_fallback \in BOOLEAN,
          preference \in VideoEncoderPreferences, gpu_surface_only \in BOOLEAN :
         f_call' = Some([fn |-> "encoder_candidates", codec |-> codec,
                         allow_fallback |-> allow_fallback, preference |-> preference,
                         gpu_surface_only |-> gpu_surface_only,
                         result |-> encoder_candidates(codec, allow_fallback, preference,
                                                       gpu_surface_only)])
    /\ UNCHANGED outside_functions

NextFunctions ==
    \/ F_ShouldPreferGpuFrames
    \/ F_NormalizeRegion
    \/ F_EncoderCandidates

SpecFunctions == Init /\ [][NextFunctions]_vars

\* ------------------------------------------------ processing status actions
\* Whether the status is "processing" in a state: the override flag is set or
\* a guard is alive.
Processing(flag, gs) == flag \/ LiveGuards(gs) # {}

\* The reader's history of its call in progress, after a step of another
\* thread led to flag and gs: which truth values the status had during the
\* call, and whether set_processing(true) ran during it.
Observed(r, flag, gs, raise) ==
    IF r.pc = "loaded_flag"
    THEN [r EXCEPT !.was_true = @ \/ Processing(flag, gs),
                   !.was_false = @ \/ ~Processing(flag, gs),
                   !.raised = @ \/ raise]
    ELSE r

fetch_add_twice(counter) == counter + 2

\* processing_counter().fetch_add(1).
fetch_add(counter) == counter + 1

\* processing_counter().fetch_sub(1).
fetch_sub(counter) == counter - 1

\* ProcessingGuard::start in a finalizer.
PS_GuardStart ==
    /\ \E g \in Finalizers :
         /\ guards[g] = "none"
         /\ guards' = [guards EXCEPT ![g] = "alive"]
    /\ processing_counter' = fetch_add(processing_counter)
    /\ reader' = Observed(reader, processing_override_flag, guards', FALSE)
    /\ UNCHANGED processing_override_flag
    /\ UNCHANGED outside_processing

\* Drop for ProcessingGuard at the end of the finalizer.
PS_GuardDrop ==
    /\ \E g \in Finalizers :
         /\ guards[g] = "alive"
         /\ guards' = [guards EXCEPT ![g] = "dropped"]
    /\ processing_counter' = fetch_sub(processing_counter)
    /\ reader' = Observed(reader, processing_override_flag, guards', FALSE)
    /\ UNCHANGED processing_override_flag
    /\ UNCHANGED outside_processing

\* set_processing(value).
PS_SetProcessing ==
    /\ \E value \in BOOLEAN :
         /\ processing_override_flag' = value
         /\ reader' = Observed(reader, value, guards, value)
    /\ UNCHANGED <<processing_counter, guards>>
    /\ UNCHANGED outside_processing

\* is_processing, first load: the override flag; a set flag ends the call.
PS_LoadFlag ==
    /\ reader.pc \in {"idle", "returned"}
    /\ reader' = IF processing_override_flag
                 THEN [pc |-> "returned", result |-> TRUE, was_true |-> TRUE,
                       was_false |-> FALSE, raised |-> FALSE]
                 ELSE [pc |-> "loaded_flag", result |-> FALSE,
                       was_true |-> Processing(processing_override_flag, guards),
                       was_false |-> ~Processing(processing_override_flag, guards),
                       raised |-> FALSE]
    /\ UNCHANGED <<processing_counter, processing_override_flag, guards>>
    /\ UNCHANGED outside_processing

\* is_processing, second load: the counter.
PS_LoadCounter ==
    /\ reader.pc = "loaded_flag"
    /\ reader' = [reader EXCEPT !.pc = "returned",
                                !.result = is_processing_from(FALSE, processing_counter)]
    /\ UNCHANGED <<processing_counter, processing_override_flag, guards>>
    /\ UNCHANGED outside_processing

NextProcessing ==
    \/ PS_GuardStart
    \/ PS_GuardDrop
    \/ PS_SetProcessing
    \/ PS_LoadFlag
    \/ PS_LoadCounter

SpecProcessing == Init /\ [][NextProcessing]_vars

\* ------------------------------------------------ controller slot actions
\* FfmpegEncoderConsumer::new builds the session's service. The manager holds
\* one session at a time, and the earlier session's stop returned only after
\* its worker ran on_stop, which handed the earlier service to its thread.
SL_New ==
    /\ \E i \in Services :
         /\ sv_pc[i] = "unborn"
         /\ i > 1 => sv_pc[i - 1] \in {"detached", "stopped", "done"}
         /\ sv_pc' = [sv_pc EXCEPT ![i] = "new"]
    /\ UNCHANGED <<sv_started, sv_tracks, live_slot>>
    /\ UNCHANGED outside_slot

\* AudioCaptureServiceImpl::start, called by initialize on the first frame:
\* the tracks are started and the controller published, or the state reset.
SL_Start ==
    /\ \E i \in Services, config \in AudioConfigs, sys_ok \in BOOLEAN, mic_ok \in BOOLEAN :
         LET system == start_capture_track(config.capture_system_audio,
                                           config.capture_system_audio, sys_ok, sys_ok)
             microphone == start_capture_track(config.capture_microphone_audio,
                                               config.capture_microphone_audio, mic_ok, mic_ok)
             tracks == [k \in TrackKinds |->
                          IF k = "system" THEN system.capture # None
                          ELSE microphone.capture # None]
             reset == reset_state(live_slot, i)
         IN  /\ sv_pc[i] = "new"
             /\ IF system.result = Ok /\ microphone.result = Ok
                THEN /\ sv_pc' = [sv_pc EXCEPT ![i] = "started"]
                     /\ sv_started' = [sv_started EXCEPT ![i] = TRUE]
                     /\ sv_tracks' = [sv_tracks EXCEPT ![i] = tracks]
                     /\ live_slot' = set_live_audio_controller(live_slot,
                                         Some(LiveAudioController(i, tracks)))
                ELSE /\ sv_pc' = [sv_pc EXCEPT ![i] = "failed"]
                     /\ sv_started' = [sv_started EXCEPT ![i] = reset.started]
                     /\ sv_tracks' = [sv_tracks EXCEPT ![i] = reset.tracks]
                     /\ live_slot' = reset.slot
    /\ UNCHANGED outside_slot

\* FfmpegEncoderConsumer::finalize takes the service and
\* finalize_and_mux_detached spawns its thread.
SL_Detach ==
    /\ \E i \in Services :
         /\ sv_pc[i] \in {"new", "started", "failed"}
         /\ sv_pc' = [sv_pc EXCEPT ![i] = "detached"]
    /\ UNCHANGED <<sv_started, sv_tracks, live_slot>>
    /\ UNCHANGED outside_slot

\* The detached thread enters finalize_and_mux: a service that is not started
\* resets and returns, a started one stops its workers and runs the mux.
SL_FinalizeAndMux ==
    /\ \E i \in Services :
         LET reset == reset_state(live_slot, i)
         IN  /\ sv_pc[i] = "detached"
             /\ IF ~sv_started[i]
                THEN /\ sv_pc' = [sv_pc EXCEPT ![i] = "done"]
                     /\ sv_started' = [sv_started EXCEPT ![i] = reset.started]
                     /\ sv_tracks' = [sv_tracks EXCEPT ![i] = reset.tracks]
                     /\ live_slot' = reset.slot
                ELSE /\ sv_pc' = [sv_pc EXCEPT ![i] = "stopped"]
                     /\ UNCHANGED <<sv_started, sv_tracks, live_slot>>
    /\ UNCHANGED outside_slot

\* The detached thread's mux has returned: reset_state ends finalize_and_mux.
SL_ResetState ==
    /\ \E i \in Services :
         LET reset == reset_state(live_slot, i)
         IN  /\ sv_pc[i] = "stopped"
             /\ sv_pc' = [sv_pc EXCEPT ![i] = "done"]
             /\ sv_started' = [sv_started EXCEPT ![i] = reset.started]
             /\ sv_tracks' = [sv_tracks EXCEPT ![i] = reset.tracks]
             /\ live_slot' = reset.slot
    /\ UNCHANGED outside_slot

NextSlot ==
    \/ SL_New
    \/ SL_Start
    \/ SL_Detach
    \/ SL_FinalizeAndMux
    \/ SL_ResetState

SpecSlot == Init /\ [][NextSlot]_vars


\* ================================================================ claims
SameSession == 
    /\ active_session # None
    /\ active_session' # None
    /\ The(active_session').sid = The(active_session).sid

SessionCreated ==
    /\ active_session' # None
    /\ active_session = None \/ The(active_session').sid # The(active_session).sid

SessionDiscarded ==
    /\ active_session # None
    /\ active_session' = None \/ The(active_session').sid # The(active_session).sid

\* C1: a session's state changes only along Idle->Running (a session is created
\* Running, by a successful start), Running->Paused (pause), Paused->Running
\* (resume) and Running|Paused->Stopped (stop, cancel, or the runtime having
\* finished); a session is discarded only by stop/cancel or, once Stopped, by start.
C1_StateChange ==
    LET old == The(active_session).state
        new == The(active_session').state
    IN old # new =>
         \/ old = "Running" /\ new = "Paused" /\ last_op'.op = "pause"
         \/ old = "Paused" /\ new = "Running" /\ last_op'.op = "resume"
         \/ /\ old \in {"Running", "Paused"}
            /\ new = "Stopped"
            /\ \/ last_op'.op \in {"stop", "cancel"}
               \/ runtime_finished(The(active_session), handles)

C1_Step ==
    /\ SameSession => C1_StateChange
    /\ SessionCreated =>
          /\ The(active_session').state = "Running"
          /\ last_op'.op = "start"
          /\ last_op'.result.kind = "Ok"
    /\ SessionDiscarded =>
          \/ last_op'.op \in {"stop", "cancel"}
          \/ /\ last_op'.op = "start"
             /\ \/ The(active_session).state = "Stopped"
                \/ runtime_finished(The(active_session), handles)

C1_SessionStateMachine == [][C1_Step]_vars

\* C1 witness: resume was tried on a Stopped session and refused.
C1_Witness ==
    /\ active_session # None
    /\ The(active_session).state = "Stopped"
    /\ last_op.op = "resume"
    /\ last_op.result.kind = "TransicionInvalida"

LiveHandles == {r \in HandleIds : handles[r].status = "live"}

SessionBusy ==
    /\ active_session # None
    /\ The(active_session).state \in {"Running", "Paused"}
    /\ ~runtime_finished(The(active_session), handles)

\* C2: at most one live runtime handle exists, the session's; and start() on a
\* Running or Paused session whose runtime has not finished returns the
\* 'recording already in progress' error, does not invoke the factory and leaves
\* the session (state, elapsed, runtime) and the handles as they were.
C2_OneSessionOneRuntime ==
    /\ Cardinality(LiveHandles) <= 1
    /\ \A r \in LiveHandles : active_session # None /\ The(active_session).runtime = Some(r)
    /\ SessionBusy =>
          \A in \in StartInputs :
             LET o == start(active_session, handles, in[1], in[2], sessions_created + 1)
             IN /\ o.result.kind = "YaExisteGrabacion"
                /\ ~o.built
                /\ o.session = active_session
                /\ o.handles = handles

\* C2 witness: start() has just been refused on a busy session.
C2_Witness ==
    /\ SessionBusy
    /\ last_op.op = "start"
    /\ last_op.result.kind = "YaExisteGrabacion"
    /\ The(active_session).elapsed_before_pause_ms > 0

\* C8: while a session is held, neither its accumulated elapsed time nor the
\* elapsed_ms that snapshot reports ever decreases.
C8_Step ==
    SameSession =>
        /\ The(active_session').elapsed_before_pause_ms
              >= The(active_session).elapsed_before_pause_ms
        /\ elapsed_ms(The(active_session'), now') >= elapsed_ms(The(active_session), now)

C8_ElapsedMonotonic == [][C8_Step]_vars

\* C8 witness: a session that accumulated time, was paused and resumed, and is
\* paused again.
C8_Witness ==
    /\ active_session # None
    /\ The(active_session).state = "Paused"
    /\ The(active_session).elapsed_before_pause_ms > 0
    /\ resumes > 0
    /\ last_op.op = "pause"
    /\ last_op.result.kind = "Ok"

LastResumeIffRunning(s) == (s.last_resume_at # None) <=> (s.state = "Running")

\* C9 as stated: elapsed_ms is exactly the time spent in Running (in whole
\* milliseconds), and last_resume_at is set iff the session is Running.
C9_ExactRunningTime ==
    active_session # None =>
        /\ elapsed_ms(The(active_session), now) = as_millis(running_ticks)
        /\ LastResumeIffRunning(The(active_session))

\* C9 amended: elapsed_ms is the sum of the Running intervals, each truncated to
\* whole milliseconds: it never exceeds the time spent in Running (nothing is
\* counted twice, nothing is counted while Paused or Stopped), falls short of it
\* by less than one millisecond per Running interval, and last_resume_at is set
\* iff the session is Running.
C9_Inv ==
    active_session # None =>
        LET e == elapsed_ms(The(active_session), now) IN
        /\ e * TicksPerMs <= running_ticks
        /\ running_ticks - e * TicksPerMs <= (resumes + 1) * (TicksPerMs - 1)
        /\ LastResumeIffRunning(The(active_session))

C9_NoGrowthStep ==
    (SameSession
     /\ The(active_session).state \in {"Paused", "Stopped"}
     /\ The(active_session').state = The(active_session).state)
    => elapsed_ms(The(active_session'), now') = elapsed_ms(The(active_session), now)

C9_TruncatedRunningTime == []C9_Inv /\ [][C9_NoGrowthStep]_vars

\* C9 witness: two Running intervals, with time spent Paused between them, ended
\* by a stop whose runtime failed (the session is kept, Stopped).
C9_Witness ==
    /\ active_session # None
    /\ The(active_session).state = "Stopped"
    /\ resumes > 0
    /\ running_ticks >= TicksPerMs
    /\ running_ticks < now
    /\ The(active_session).elapsed_before_pause_ms > 0

\* What C10 calls a configuration that fails validation, the sums taken as numbers.
ConfigInvalid(config) ==
    \/ config.fps = 0
    \/ config.fps > MaxFps
    \/ \A t \in ProviderTargets : t.id # config.target_id
    \/ /\ config.crop_region # None
       /\ \E t \in ProviderTargets :
             /\ t.id = config.target_id
             /\ LET c == The(config.crop_region)
                IN \/ c.width = 0
                   \/ c.height = 0
                   \/ c.x + c.width > t.width
                   \/ c.y + c.height > t.height

ValidationErrors ==
    {"FpsInvalido", "TargetNoEncontrado", "RegionVacia", "RegionExcedeAncho",
     "RegionExcedeAlto"}

\* C10: start() with a configuration that fails validation returns a validation
\* error, does not invoke the factory and creates no session (Idle stays Idle).
C10_InvalidStartRejected ==
    active_session = None =>
        \A in \in StartInputs :
            (in[2].provider_ok /\ ConfigInvalid(in[1])) =>
                LET o == start(active_session, handles, in[1], in[2], sessions_created + 1)
                IN /\ o.result.kind \in ValidationErrors
                   /\ ~o.built
                   /\ o.session = None

\* ------------------------------------------------------ the video pipeline
Range(s) == {s[i] : i \in 1..Len(s)}

IsPrefix(s, t) == Len(s) <= Len(t) /\ s = SubSeq(t, 1, Len(s))

IsStop(m) == m.stop

IsFrame(m) == ~m.stop

\* The frames waiting in the channel, oldest first.
ChanFrames ==
    LET fs == SelectSeq(chan, IsFrame)
    IN  [i \in 1..Len(fs) |-> fs[i].frame]

Held == IF w_frame = None THEN <<>> ELSE <<The(w_frame)>>

\* The producer has added its frame to queued and the add is not yet settled
\* by a successful send or by the decrement of a refused one.
ProducerInFlight ==
    \/ p_pc = "arrive_send"
    \/ p_pc = "send_result" /\ p_send # "Ok"

QueuedAccounting ==
    queued = Len(ChanFrames)
             + (IF ProducerInFlight THEN 1 ELSE 0)
             + (IF w_pc = "decrement" THEN 1 ELSE 0)

\* C3: under every interleaving of producer and worker the occupancy counter
\* stays within 0..6, and a frame is enqueued only by the arrival call of a
\* surface whose should_accept_frame call loaded queued < 6.
C3_Inv ==
    /\ queued >= 0
    /\ queued <= VIDEO_PIPELINE_QUEUE_CAPACITY
    /\ Len(chan) <= VIDEO_PIPELINE_QUEUE_CAPACITY
    /\ p_pc \in {"arrive_error", "arrive_add", "arrive_send"}
         => p_observed < VIDEO_PIPELINE_QUEUE_CAPACITY

C3_Step ==
    enqueued' # enqueued =>
        /\ p_pc = "arrive_send"
        /\ p_observed < VIDEO_PIPELINE_QUEUE_CAPACITY
        /\ enqueued' = Append(enqueued, surfaces)
        /\ chan' = Append(chan, FrameMessage(surfaces))

C3_QueueWithinCapacity == []C3_Inv /\ [][C3_Step]_vars

\* The queue is full: six admitted frames are waiting and the worker took none.
C3_Witness ==
    /\ queued = VIDEO_PIPELINE_QUEUE_CAPACITY
    /\ Len(enqueued) = VIDEO_PIPELINE_QUEUE_CAPACITY
    /\ Len(ChanFrames) = VIDEO_PIPELINE_QUEUE_CAPACITY

\* C5 as stated: while the error slot holds an error no frame is admitted by
\* the gate and no frame is enqueued.
C5_FailedStep ==
    worker_error # <<>> =>
        /\ enqueued' = enqueued
        /\ ~(p_pc = "gate_load" /\ p_pc' = "arrive_error")

C5_NothingAfterWorkerFailed == [][C5_FailedStep]_vars

\* C5: a should_accept_frame call or a frame-arrival call that reads the
\* error slot after the worker recorded an error returns that error and ends
\* the capture; the one call that had read the slot before can still admit or
\* enqueue its frame, so at most one frame is enqueued after the failure, and
\* the worker passes no frame to on_frame once an error is recorded.
C5_Inv == late_enqueues <= 1

C5_Step ==
    /\ (/\ worker_error # <<>>
        /\ p_pc \in {"gate_error", "arrive_error", "disconnected"}
        /\ p_pc' # p_pc)
         => /\ p_pc' = "halted"
            /\ p_fatal' # None
            /\ The(p_fatal').stage # "capture" => The(p_fatal').err = worker_error
            /\ enqueued' = enqueued
    /\ worker_error # <<>> => encoded' = encoded

C5_ErrorStopsLaterCalls == []C5_Inv /\ [][C5_Step]_vars

\* The worker failed while an arrival call was past its error check: that
\* frame was still enqueued, and the next surface's gate returned the error.
C5_Witness ==
    /\ p_pc = "halted"
    /\ p_fatal = Fatal("backpressure", <<"on_frame">>)
    /\ late_enqueues = 1

\* C6: every frame refused for backpressure, by the gate or by a full
\* channel, adds exactly one to dropped, leaves queued as it was once the
\* operation is over, and never reaches the channel or on_frame.
C6_Inv ==
    /\ dropped_frames + (IF p_pc = "dropping" THEN 1 ELSE 0) = Cardinality(refused)
    /\ refused \cap Range(enqueued) = {}
    /\ refused \cap Range(encoded) = {}
    /\ refused \cap Range(ChanFrames) = {}
    /\ refused \cap w_frame = {}
    /\ QueuedAccounting

C6_Step ==
    /\ refused' # refused =>
         /\ refused' = refused \cup {surfaces}
         /\ surfaces \notin refused
         /\ p_pc' = IF p_pc = "gate_load" THEN "dropping" ELSE "send_result"
         /\ <<chan, enqueued, encoded, queued>>' = <<chan, enqueued, encoded, queued>>
    /\ dropped_frames' # dropped_frames =>
         /\ dropped_frames' = dropped_frames + 1
         /\ surfaces \in refused
         /\ <<chan, enqueued, encoded, queued>>' = <<chan, enqueued, encoded, queued>>

C6_DroppedFrames == []C6_Inv /\ [][C6_Step]_vars

\* A frame was refused at the gate of a full queue and counted.
C6_Witness ==
    /\ dropped_frames = 1
    /\ refused = {MaxFrames}
    /\ p_pc = "idle"
    /\ queued = VIDEO_PIPELINE_QUEUE_CAPACITY

WorkerFailed == w_exit \in {"new_failed", "encode_failed"}

C7_Inv ==
    /\ IsPrefix(encoded, enqueued)
    /\ ~WorkerFailed => enqueued = encoded \o Held \o ChanFrames
    /\ w_exit = "stop" => encoded = enqueued /\ p_pc = "halted"
    /\ (on_stop_calls > 0 /\ ~WorkerFailed) => encoded = enqueued
    /\ \A i \in 1..Len(chan) : IsStop(chan[i]) => i = Len(chan)

C7_Step ==
    encoded' # encoded =>
        /\ w_frame # None
        /\ encoded' = Append(encoded, The(w_frame))
        /\ on_stop_calls = 0

C7_Eventually ==
    \A f \in 1..MaxFrames :
        (f \in Range(enqueued)) ~> (f \in Range(encoded) \/ WorkerFailed)

\* C7: while the worker has not failed, the enqueued frames are exactly the
\* encoded ones, then the one the worker holds, then those in the channel, in
\* enqueue order and each once; when the worker leaves its loop on the Stop
\* sentinel every enqueued frame has been passed to on_frame, before on_stop;
\* and every enqueued frame is eventually passed to on_frame unless the
\* worker fails.
C7_FramesEncodedInOrder == []C7_Inv /\ [][C7_Step]_vars /\ C7_Eventually

\* A session ended by Stop with the queue still holding frames: all encoded.
C7_Witness ==
    /\ w_pc = "done"
    /\ w_exit = "stop"
    /\ on_stop_calls = 1
    /\ Len(encoded) = VIDEO_PIPELINE_QUEUE_CAPACITY
    /\ refused # {}

\* ---------------------------------------------------------- the encoder
Max(a, b) == IF a >= b THEN a ELSE b

LastPtsBefore(i) == IF i = 1 THEN -1 ELSE pts_log[i - 1].pts

\* C4: on either input path and for any timestamps, the PTS values given to
\* the frames of a session are strictly increasing, each is
\* max(last_pts + 1, timestamp - first_timestamp), and the first is 0.
C4_PtsStrictlyIncreasing ==
    /\ \A i \in 1..Len(pts_log) :
         pts_log[i].pts = Max(LastPtsBefore(i) + 1,
                              pts_log[i].timestamp_ms - pts_log[1].timestamp_ms)
    /\ \A i, j \in 1..Len(pts_log) : i < j => pts_log[i].pts < pts_log[j].pts
    /\ pts_log # <<>> => pts_log[1].pts = 0
    /\ \A i \in 1..Len(pts_log) : pts_log[i].path = pts_log[1].path
    /\ (enc_ctx # None /\ pts_log # <<>>) =>
         /\ The(enc_ctx).last_pts = pts_log[Len(pts_log)].pts
         /\ The(enc_ctx).first_timestamp_ms = Some(pts_log[1].timestamp_ms)

\* A GPU session whose second frame jumps ahead, whose third ties with the
\* second and whose fourth is older than the first.
C4_Witness ==
    /\ Len(pts_log) = 4
    /\ pts_log[1].path = "GpuTextureD3d11"
    /\ pts_log[2].pts > pts_log[1].pts + 1
    /\ pts_log[3].timestamp_ms = pts_log[2].timestamp_ms
    /\ pts_log[4].timestamp_ms < pts_log[1].timestamp_ms

\* -------------------------------------------------- the region validation
\* The region fits in the target, the sums taken as mathematical integers.
Fits(region, target) ==
    /\ region.width > 0
    /\ region.height > 0
    /\ region.x + region.width <= target.width
    /\ region.y + region.height <= target.height

\* C11: validate_against_target accepts a region if and only if it is
\* non-empty and fits in the target, the sums taken as mathematical integers;
\* {1910, 1075, 80, 40} on 1920x1080 is rejected for exceeding the width.
C11_AcceptsIffFits ==
    v_result # None =>
        /\ The(v_result).kind = "Ok" <=> Fits(v_region, v_target)
        /\ (v_region = Region(1910, 1075, 80, 40) /\ v_target \in ProviderTargets)
              => The(v_result).kind = "RegionExcedeAncho"

\* ------------------------------------------ the manager: invalid transitions
\* The state the manager is in once it has polled its runtime: Idle without a
\* session, Stopped when the runtime of a Running or Paused session finished.
RefreshedState(sess, hs) ==
    IF sess = None THEN "Idle"
    ELSE LET s == The(sess) IN
         IF /\ s.state \in {"Running", "Paused"}
            /\ (s.runtime = None \/ hs[The(s.runtime)].finished)
         THEN "Stopped"
         ELSE s.state

ReportedElapsed(sess) == IF sess = None THEN 0 ELSE elapsed_ms(The(sess), now)

TransitionOps == {"pause", "resume", "stop", "cancel"}

ApplyOp(op, stop_res) ==
    CASE op = "pause" -> pause(active_session, handles)
      [] op = "resume" -> resume(active_session, handles)
      [] op = "stop" -> stop(active_session, handles, stop_res)
      [] OTHER -> cancel(active_session, handles, stop_res)

Verb(op) ==
    CASE op = "pause" -> "pausar"
      [] op = "resume" -> "reanudar"
      [] OTHER -> "detener"

\* pause needs Running, resume needs Paused, stop and cancel need a session.
InvalidFor(op, state) ==
    CASE op = "pause" -> state # "Running"
      [] op = "resume" -> state # "Paused"
      [] OTHER -> state = "Idle"

\* The operation failed and left state and reported elapsed time as they were.
RejectedUnchanged(o, cur) ==
    /\ o.result.kind # "Ok"
    /\ RefreshedState(o.session, o.handles) = cur
    /\ ReportedElapsed(o.session) = ReportedElapsed(active_session)
    /\ \A r \in DOMAIN handles :
         o.handles[r].status = "live" => o.handles[r] = handles[r]

\* C12 as stated: an operation that is invalid in the current state fails with
\* an error that names that state, Idle included, and changes nothing.
C12_ErrorNamesEveryState ==
    \A op \in TransitionOps, stop_res \in RuntimeResults :
        LET cur == RefreshedState(active_session, handles)
            o == ApplyOp(op, stop_res)
        IN  InvalidFor(op, cur) =>
                /\ RejectedUnchanged(o, cur)
                /\ "state" \in DOMAIN o.result
                /\ o.result.state = cur

\* C12: pause() when the session is not Running, resume() when it is not
\* Paused, fail with "Transicion invalida ... desde <state>" naming the state
\* (Running, Paused or Stopped, Stopped also for a session whose runtime
\* finished on its own); without a session pause, resume, stop and cancel fail
\* with "No hay una grabacion activa", which names no state; none of them
\* performs the transition: state and reported elapsed_ms stay as they were.
C12_InvalidTransitionRejected ==
    \A op \in TransitionOps, stop_res \in RuntimeResults :
        LET cur == RefreshedState(active_session, handles)
            o == ApplyOp(op, stop_res)
        IN  InvalidFor(op, cur) =>
                /\ RejectedUnchanged(o, cur)
                /\ cur = "Idle" => o.result = NoActiva /\ o.session = None
                /\ cur # "Idle" => o.result = Transicion(Verb(op), cur)

\* pause() was refused on a session whose runtime had finished on its own.
C12_Witness ==
    /\ last_op = Op("pause", Outcome(active_session, handles, Transicion("pausar", "Stopped")))
    /\ active_session # None
    /\ The(active_session).state = "Stopped"
    /\ handles[The(active_session).sid].status = "waited"

\* ------------------------------------------------ the manager: stop on Stopped
HeldStopped == active_session # None /\ The(active_session).state = "Stopped"

\* stop() on a held Stopped session: Ok, no runtime call, the session discarded.
StopOnStopped(o) ==
    /\ The(active_session).runtime = None
    /\ o.result = Ok
    /\ o.handles = handles
    /\ o.session = None

\* C13 as stated: a second stop() right after returns what the first returned
\* and leaves the manager as the first left it.
C13_SecondStopSameResult ==
    HeldStopped =>
        \A r1, r2 \in RuntimeResults :
            LET o1 == stop(active_session, handles, r1)
                o2 == stop(o1.session, o1.handles, r2)
            IN  /\ StopOnStopped(o1)
                /\ o2.session = o1.session
                /\ o2.handles = o1.handles
                /\ o2.result = o1.result

\* C13: stop() on a held session that is already Stopped returns Ok, calls
\* neither stop nor wait of a runtime (the session holds none any more) and
\* discards the session; a second stop() right after leaves the manager as the
\* first left it, without a session, and returns "No hay una grabacion activa".
C13_StopOnStoppedIdempotent ==
    HeldStopped =>
        \A r1, r2 \in RuntimeResults :
            LET o1 == stop(active_session, handles, r1)
                o2 == stop(o1.session, o1.handles, r2)
            IN  /\ StopOnStopped(o1)
                /\ o2.session = o1.session
                /\ o2.handles = o1.handles
                /\ o2.result = NoActiva

\* A Stopped session is held: its runtime's stop() failed and consumed the handle.
C13_Witness ==
    /\ HeldStopped
    /\ last_op.op = "stop"
    /\ last_op.result.kind = "RuntimeError"
    /\ handles[The(active_session).sid].status = "stopped"
    /\ The(active_session).last_error = Some("RuntimeError")

\* ------------------------------------------------ the manager: start again
\* A configuration that passes validation, a provider that answers and a
\* factory that builds the runtime.
ValidStartInputs ==
    {in \in StartInputs :
        /\ ~ConfigInvalid(in[1])
        /\ in[2].provider_ok
        /\ in[2].factory_res = "Ok"}

\* start() succeeded with a new session: Running, nothing elapsed, no error.
StartedFresh(o, id) ==
    /\ o.result = Ok
    /\ o.built
    /\ o.session # None
    /\ The(o.session).sid = id
    /\ The(o.session).state = "Running"
    /\ elapsed_ms(The(o.session), now) = 0
    /\ The(o.session).last_error = None
    /\ The(o.session).runtime = Some(id)
    /\ o.handles[id] = NewHandle

\* C14: start() with a valid configuration succeeds and leaves a new Running
\* session with elapsed 0 and no last_error whenever no session is Running or
\* Paused: without a session (fresh manager, after a successful stop) and with
\* a Stopped session, which pause, resume and refresh keep held and that
\* start() replaces.
C14_StartWhenNotActive ==
    /\ (RefreshedState(active_session, handles) \notin {"Running", "Paused"}
        /\ sessions_created < MaxSessions) =>
            \A in \in ValidStartInputs :
                StartedFresh(start(active_session, handles, in[1], in[2],
                                   sessions_created + 1),
                             sessions_created + 1)
    /\ HeldStopped =>
            /\ pause(active_session, handles).session = active_session
            /\ resume(active_session, handles).session = active_session
            /\ finalize_finished_runtime_if_any(active_session, handles).session
                   = active_session

\* A Stopped session left by the runtime finishing on its own is held after a
\* refresh, and another session can still be started.
C14_Witness ==
    /\ HeldStopped
    /\ last_op.op = "refresh_runtime_state"
    /\ handles[The(active_session).sid].status = "waited"
    /\ sessions_created < MaxSessions

\* ------------------------------------------------ the manager: after stop
\* What the manager reports without a session.
ReportsIdle ==
    /\ active_session = None
    /\ snapshot = [state |-> "Idle", elapsed_ms |-> 0, last_error |-> None]
    /\ ~is_active

\* C15: after stop() (or cancel()) has succeeded the manager holds no session:
\* snapshot() reports Idle, elapsed_ms 0 and no last_error, is_active() is
\* false, and a stop() right after fails with "No hay una grabacion activa"
\* and changes nothing; stop() on a Running or Paused session whose runtime
\* stops without error succeeds, consumes the runtime and leaves no session.
C15_NoSessionAfterStop ==
    /\ (last_op.op \in {"stop", "cancel"} /\ last_op.result = Ok) =>
            /\ ReportsIdle
            /\ \A r \in RuntimeResults :
                 stop(active_session, handles, r) = Outcome(None, handles, NoActiva)
    /\ RefreshedState(active_session, handles) \in {"Running", "Paused"} =>
            LET o == stop(active_session, handles, "Ok")
                rid == The(The(active_session).runtime)
            IN  /\ o.result = Ok
                /\ o.session = None
                /\ o.handles = [handles EXCEPT ![rid] = ConsumedHandle("stopped")]
                /\ \A r \in RuntimeResults :
                     stop(o.session, o.handles, r) = Outcome(None, o.handles, NoActiva)

\* stop() has just succeeded on the first session after it ran for a while
\* and was resumed once; its runtime was consumed by stop().
C15_Witness ==
    /\ last_op.op = "stop"
    /\ last_op.result = Ok
    /\ active_session = None
    /\ sessions_created = 1
    /\ handles[1].status = "stopped"
    /\ resumes = 1
    /\ running_ticks > 0

\* ------------------------------------------------ the manager: refresh
\* The held session is Running or Paused and its runtime has finished.
FinishedUnnoticed ==
    /\ active_session # None
    /\ The(active_session).state \in {"Running", "Paused"}
    /\ runtime_finished(The(active_session), handles)

\* C16: refresh_runtime_state, when the session is Running or Paused and its
\* runtime has finished, moves the session to Stopped, accumulates the elapsed
\* time, consumes the runtime with one wait() and stores the error wait()
\* returns in last_error; in every other state, Stopped included, it changes
\* nothing, so a second refresh right after changes nothing and waits on no
\* runtime.
C16_RefreshFinalizesOnce ==
    LET o == finalize_finished_runtime_if_any(active_session, handles)
        again == finalize_finished_runtime_if_any(o.session, o.handles)
    IN  /\ FinishedUnnoticed =>
              LET old == The(active_session)
                  new == The(o.session)
                  rid == The(old.runtime)
              IN  /\ o.session # None
                  /\ new.state = "Stopped"
                  /\ new.elapsed_before_pause_ms = elapsed_ms(old, now)
                  /\ new.last_resume_at = None
                  /\ new.runtime = None
                  /\ old.runtime # None
                  /\ handles[rid].status = "live"
                  /\ o.handles = [handles EXCEPT ![rid] = ConsumedHandle("waited")]
                  /\ new.last_error = IF handles[rid].exit = "Ok" THEN old.last_error
                                      ELSE Some(handles[rid].exit)
        /\ ~FinishedUnnoticed => (o.session = active_session /\ o.handles = handles)
        /\ again.session = o.session
        /\ again.handles = o.handles

\* A refresh has just moved a session to Stopped whose runtime had ended with
\* an error after the session ran for a while.
C16_Witness ==
    /\ last_op.op = "refresh_runtime_state"
    /\ HeldStopped
    /\ The(active_session).last_error = Some("RuntimeError")
    /\ The(active_session).elapsed_before_pause_ms > 0
    /\ handles[The(active_session).sid].status = "waited"

\* ------------------------------------------------ the encoder: initialization
\* C17: in a session the encoder is initialized at most once, by the first
\* valid frame that reaches the worker: never before a valid frame arrived,
\* never by an invalid frame, and never again: once initialized the context
\* stays, and if the initialization failed the worker's loop has ended.
C17_InitializedOnce ==
    /\ enc_inits <= 1
    /\ enc_inits = (IF enc_valid > 0 THEN 1 ELSE 0)
    /\ (enc_inits = 1 /\ enc_state = "open") => enc_ctx # None
    /\ (enc_inits = 0) => (enc_ctx = None /\ enc_selected = None /\ pts_log = <<>>)

\* Initialized once although an invalid frame and several valid frames came.
C17_Witness ==
    /\ enc_inits = 1
    /\ enc_valid >= 2
    /\ enc_calls > enc_valid
    /\ Len(pts_log) >= 2
    /\ enc_state = "open"

\* ------------------------------------------------ the encoder: the live label
\* The backend an encoder runs on.
BackendOf(encoder_name) ==
    IF encoder_name[2] \in {"nvenc", "amf", "qsv"}
    THEN (CASE encoder_name[2] = "nvenc" -> "NVENC"
            [] encoder_name[2] = "amf" -> "AMF"
            [] OTHER -> "QSV")
    ELSE "CPU"

SessionCodec ==
    IF The(enc_config).codec # None THEN The(The(enc_config).codec)
    ELSE default_codec(The(enc_config).format)

C19_Inv ==
    /\ h_callbacks <= 1
    /\ h_pc \in {"none", "held"} => (h_callbacks = 0 /\ h_via = "none" /\ f_pc = "idle")
    /\ h_pc \in {"finalize", "consumed"} => (h_callbacks = 1 /\ h_via \in {"stop", "wait"})
    /\ h_pc = "consumed" <=> f_pc = "done"
    /\ h_callbacks = 1 => p_pc = "halted"

C19_Step ==
    /\ h_callbacks' # h_callbacks =>
          /\ h_pc = "held"
          /\ h_via = "none"
          /\ h_via' \in {"stop", "wait"}
          /\ p_pc = "halted"
    /\ h_callbacks >= 1 =>
          UNCHANGED <<h_via, surfaces, discarded, frame_counter, enqueued, p_pc>>

\* C19: on_session_finished is invoked exactly once over the life of a runtime
\* handle: by the one of stop() and wait() that consumes the handle, never
\* before, never a second time, and it has been invoked when that call
\* returns; it is invoked only after the capture thread has ended, so no
\* surface is delivered to on_frame_arrived from then on.
C19_CallbackExactlyOnce == []C19_Inv /\ [][C19_Step]_vars

\* The capture ended by itself with an error after two frames; the manager's
\* wait() ran the callback once and returned.
C19_Witness ==
    /\ h_pc = "consumed"
    /\ h_via = "wait"
    /\ h_callbacks = 1
    /\ p_fatal # None
    /\ frame_counter >= 2
    /\ f_result # None

BurstDelivered ==
    /\ surfaces = BurstFrames
    /\ p_pc = "idle"
    /\ p_fatal = None

\* C21 as stated: after the burst on a stalled worker at most 6 frames were
\* taken in and the dropped counter is at least the burst less 6 (14 of 20).
C21_AtMostCapacityTakenIn ==
    BurstDelivered =>
        /\ Len(enqueued) <= VIDEO_PIPELINE_QUEUE_CAPACITY
        /\ dropped_frames >= BurstFrames - VIDEO_PIPELINE_QUEUE_CAPACITY

\* C21: after a burst on a stalled worker at most 7 frames were taken in: the
\* 6 the channel holds and the one the worker took out of it before it
\* stalled; every other surface of the burst was dropped and counted, so the
\* dropped counter is at least the burst less 7 (13 of 20), and it is the
\* burst less 6 or more if the worker took no frame.
C21_BurstDropsAllButQueue ==
    /\ Len(enqueued) <= VIDEO_PIPELINE_QUEUE_CAPACITY + 1
    /\ queued <= VIDEO_PIPELINE_QUEUE_CAPACITY
    /\ BurstDelivered =>
          /\ dropped_frames + Len(enqueued) = BurstFrames
          /\ dropped_frames >= BurstFrames - (VIDEO_PIPELINE_QUEUE_CAPACITY + 1)
          /\ w_frame = None => dropped_frames >= BurstFrames - VIDEO_PIPELINE_QUEUE_CAPACITY

\* The worker took the first frame and stalled on it, the channel is full
\* with the next six and the rest of the burst was dropped.
C21_Witness ==
    /\ BurstDelivered
    /\ w_pc = "encode"
    /\ w_frame = Some(1)
    /\ Len(chan) = VIDEO_PIPELINE_QUEUE_CAPACITY
    /\ dropped_frames = BurstFrames - (VIDEO_PIPELINE_QUEUE_CAPACITY + 1)

\* ---------------------------------------------------------------------- C22
\* The sources of the tracks in a list of mux inputs.
SourcesOf(tracks) == {tracks[i].source : i \in 1..Len(tracks)}

NeverEnabled(k) == a_captures[k] = None \/ ~The(a_captures[k]).ever_enabled

\* C22: a track whose ever_enabled flag stayed false is not among the inputs
\* given to the mux stage, whatever its WAV file contains (every answer of
\* audio_file_has_payload is tried), and the inputs finalize_and_mux did hand
\* over name only tracks that were enabled. The flag is true exactly for a
\* track enabled at start or enabled while one of its buffers was processed.
C22_NeverEnabledTrackNotMuxed ==
    /\ \A k \in TrackKinds, payload \in [TrackKinds -> BOOLEAN] :
          NeverEnabled(k) => k \notin SourcesOf(select_audio_tracks(a_captures, payload))
    /\ (a_pc = "muxed" /\ a_mux # None) =>
          \A k \in SourcesOf(The(a_mux)) : ~NeverEnabled(k)
    /\ \A k \in TrackKinds :
          a_captures[k] # None =>
            (The(a_captures[k]).ever_enabled <=>
                (a_heard[k] \/ (IF k = "system" THEN a_config.capture_system_audio
                                ELSE a_config.capture_microphone_audio)))

\* A recording was muxed with one track while the other, switched on by a live
\* update after its last buffer, never had a buffer processed while enabled.
C22_Witness ==
    /\ a_pc = "muxed"
    /\ a_mux # None
    /\ \E k \in TrackKinds :
          /\ a_captures[k] # None
          /\ The(a_captures[k]).enabled
          /\ ~The(a_captures[k]).ever_enabled
          /\ k \notin SourcesOf(The(a_mux))

\* ---------------------------------------------------------------------- C23
\* The errors mux_audio_into_video returns when the FFmpeg process could not
\* be spawned or exited with a failure.
MuxFailures ==
    {AudioErr("FfmpegNotFound"), AudioErr("FfmpegNotRun"), AudioErr("FfmpegFailed")}

FfmpegFails(env) == env.prepare_ok /\ (env.spawn # "spawned" \/ ~env.exit_ok)

TextureOwners(fr) ==
    (IF fr.gpu_texture_ptr THEN 1 ELSE 0) + (IF fr.buffer_refs > 0 THEN 1 ELSE 0)

GpuFates ==
    {"refused_error", "refused_disconnected", "refused_full", "left_in_channel", "invalid",
     "init_failed", "cpu_rejected", "avbuffer_failed", "send_failed", "submitted"}

\* Where a frame is when nothing holds it any more.
FrameGone(fr) == fr.fate \in GpuFates /\ fr.buffer_refs = 0

\* C24: the texture reference of a GPU-carrying frame has exactly one owner
\* until it is released and none after, it is never released twice, and on
\* every path that ends the frame (refused by the channel, left in the channel
\* when the worker exits, discarded as invalid, rejected by a failed
\* initialize or by the CPU pipeline, AVBuffer failure, send failure, or
\* submitted and then let go by the encoder) it has been released once.
C24_TextureReleasedExactlyOnce ==
    \A f \in DOMAIN t_frames :
        LET fr == t_frames[f]
        IN  ~fr.has_cpu_data =>
              /\ fr.released <= 1
              /\ TextureOwners(fr) + fr.released = 1
              /\ FrameGone(fr) => fr.released = 1
              /\ (t_worker = "exited" /\ t_stop_sent) => fr.released = 1

\* After the worker exited: one frame was submitted and let go by the encoder,
\* one failed in send_frame, and one was left in the channel; each released once.
C24_Witness ==
    /\ t_worker = "exited"
    /\ \E f \in DOMAIN t_frames : t_frames[f].fate = "submitted" /\ t_frames[f].released = 1
    /\ \E f \in DOMAIN t_frames : t_frames[f].fate = "send_failed" /\ t_frames[f].released = 1
    /\ \E f \in DOMAIN t_frames :
          t_frames[f].fate = "left_in_channel" /\ t_frames[f].released = 1

\* ---------------------------------------------------------------------- C25
Called(fn) == f_call # None /\ The(f_call).fn = fn

\* C25: GPU frames are preferred exactly when the experimental flag is on, no
\* crop region is set, the effective codec (the chosen one, else the default
\* of the format) is not VP9 and the preference is nvenc, amf or qsv.
C25_GpuFramesOnlyForExplicitHardware ==
    Called("should_prefer_gpu_frames_with_flag") =>
        LET c == The(f_call)
            vp9 == c.config.codec = Some("Vp9")
                   \/ (c.config.codec = None /\ c.config.format = "WebM")
        IN  c.result <=> (/\ c.d3d11_input_enabled
                          /\ c.crop_region = None
                          /\ ~vp9
                          /\ c.config.video_encoder_preference \notin {"Auto", "Software"})

\* GPU frames preferred for AMF with the H.264 default of MKV.
C25_Witness ==
    /\ Called("should_prefer_gpu_frames_with_flag")
    /\ The(f_call).result
    /\ The(f_call).config.video_encoder_preference = "Amf"
    /\ The(f_call).config.codec = None
    /\ The(f_call).config.format = "Mkv"

\* ---------------------------------------------------------------------- C26
\* r is the integer nearest to v * target_extent / source_extent.
NearestScaled(r, v, source_extent, target_extent) ==
    /\ 2 * (r * source_extent - v * target_extent) <= source_extent
    /\ 2 * (v * target_extent - r * source_extent) <= source_extent

PositiveTarget(t) ==
    t.width > 0 /\ t.height > 0 /\ t.screen_width > 0 /\ t.screen_height > 0

\* One axis of a normalized region: it lies inside the target with a length
\* of at least 1; a selection that ends on the screen starts and ends at the
\* scaled coordinates unless the last pixel or the minimal length holds it,
\* and one that runs over the screen ends at the target's edge.
AxisFits(first, len, sel_start, sel_len, screen_extent, target_extent) ==
    /\ len >= 1
    /\ first + len <= target_extent
    /\ (sel_start + sel_len <= screen_extent) =>
          /\ (first = target_extent - 1
              \/ NearestScaled(first, sel_start, screen_extent, target_extent))
          /\ (len = 1
              \/ NearestScaled(first + len, sel_start + sel_len, screen_extent,
                               target_extent))
    /\ (sel_start + sel_len > screen_extent) => first + len = target_extent

\* C26: for a target with positive sizes and a selection with positive width
\* and height, normalize_native_region_for_target returns a region inside the
\* target, scaled by target size / screen size and clipped at the target's
\* edge (the two examples of the tests included); a target with a zero
\* dimension is rejected.
C26_NormalizedRegionFitsTarget ==
    /\ normalize_native_region_for_target(
           Region(120, 45, 600, 300),
           [width |-> 3840, height |-> 2160, screen_width |-> 1920, screen_height |-> 1080])
         = [kind |-> "Ok", region |-> Region(240, 90, 1200, 600)]
    /\ normalize_native_region_for_target(
           Region(1910, 1075, 80, 40),
           [width |-> 1920, height |-> 1080, screen_width |-> 1920, screen_height |-> 1080])
         = [kind |-> "Ok", region |-> Region(1910, 1075, 10, 5)]
    /\ Called("normalize_native_region_for_target") =>
          LET c == The(f_call)
              t == c.target
              sel == c.selected_region
          IN  /\ ~PositiveTarget(t) => c.result.kind = "Err"
              /\ (PositiveTarget(t) /\ sel.width > 0 /\ sel.height > 0) =>
                    /\ c.result.kind = "Ok"
                    /\ AxisFits(c.result.region.x, c.result.region.width, sel.x, sel.width,
                                t.screen_width, t.width)
                    /\ AxisFits(c.result.region.y, c.result.region.height, sel.y, sel.height,
                                t.screen_height, t.height)

\* A selection that runs over the right edge of a screen larger than its
\* target was scaled down and clipped at the target's edge.
C26_Witness ==
    /\ Called("normalize_native_region_for_target")
    /\ The(f_call).target =
          [width |-> 1280, height |-> 720, screen_width |-> 1920, screen_height |-> 1080]
    /\ The(f_call).selected_region = Region(1910, 45, 80, 300)
    /\ The(f_call).result = [kind |-> "Ok", region |-> Region(1273, 30, 7, 200)]

\* ---------------------------------------------------------------------- C30
HardwareBackends == {"nvenc", "amf", "qsv"}

IsHardware(encoder_name) == encoder_name[2] \in HardwareBackends

NoDuplicates(list) == \A i, j \in DOMAIN list : list[i] = list[j] => i = j

\* The backends of the hardware entries of a list, in order.
HardwareBackendsOf(list) ==
    LET hw == SelectSeq(list, IsHardware) IN [i \in DOMAIN hw |-> hw[i][2]]

PreferredBackend(preference) ==
    CASE preference = "Nvenc" -> "nvenc"
      [] preference = "Amf" -> "amf"
      [] preference = "Qsv" -> "qsv"
      [] OTHER -> "none"

Returned == reader.pc = "returned"

AsksMissingTrack(system, microphone) ==
    \/ system /\ a_captures["system"] = None
    \/ microphone /\ a_captures["microphone"] = None

\* C28: in every state of the service and for every pair of requested values,
\* update_live_audio_capture fails and leaves every flag as it was when no
\* controller is published or when it asks to enable a track without capturer;
\* otherwise it succeeds, sets the flag of every existing track to the value
\* asked for, changes nothing else, and get_live_audio_status then reports
\* exactly the two requested values.
C28_LiveUpdateAllOrNothing ==
    \A system \in BOOLEAN, microphone \in BOOLEAN :
        LET out == update_live_audio_capture(a_controller, a_captures, system, microphone)
            asked == [k \in TrackKinds |-> IF k = "system" THEN system ELSE microphone]
        IN  IF a_controller = None \/ AsksMissingTrack(system, microphone)
            THEN out.result # Ok /\ out.captures = a_captures
            ELSE /\ out.result = Ok
                 /\ \A k \in TrackKinds :
                       IF a_captures[k] = None THEN out.captures[k] = None
                       ELSE out.captures[k] =
                              Some([The(a_captures[k]) EXCEPT !.enabled = asked[k]])
                 /\ get_live_audio_status(a_controller, out.captures) = asked

\* During a recording started with system audio only, whose microphone track
\* exists as well, a live update switched the system track off and the
\* microphone on, and the status reports that.
C28_Witness ==
    /\ a_pc = "started"
    /\ a_update = Some(Ok)
    /\ a_config = [capture_system_audio |-> TRUE, capture_microphone_audio |-> FALSE]
    /\ get_live_audio_status(a_controller, a_captures)
          = [k \in TrackKinds |-> k = "microphone"]

\* ---------------------------------------------------------------------------
\* C29  finalize (on_stop)
\* ---------------------------------------------------------------------------

StepsOf(f) == {f.steps[i] : i \in 1..Len(f.steps)}

\* C29 as stated: with an open context every step of finalize is attempted,
\* whatever the earlier steps returned.
C29_EveryStepAttempted ==
    (enc_final # None /\ The(enc_final).had_ctx) =>
        StepsOf(The(enc_final)) = {FinalizeSteps[i] : i \in 1..Len(FinalizeSteps)}

\* C29 (amended): finalize always drops the context, hands the audio service
\* its detached finalize and clears the live label, in that order and after
\* the video steps; the video steps stop at the first one that fails (no
\* drain and no trailer after a failed end-of-stream, no trailer after a
\* failed drain); and finalize returns an error exactly when a video step
\* failed, the error of that step.
C29_FinalizeClosesAlwaysStopsVideoAtFirstError ==
    enc_final # None =>
        LET f == The(enc_final)
            n == Len(f.steps)
        IN  /\ n >= 3
            /\ SubSeq(f.steps, n - 2, n) = SubSeq(FinalizeSteps, 4, 6)
            /\ enc_ctx = None
            /\ live_label = None
            /\ ~f.had_ctx => (n = 3 /\ f.result = "Ok")
            /\ (f.had_ctx /\ ~f.env.send_eof_ok) =>
                   /\ SubSeq(f.steps, 1, n - 3) = <<"send_eof">>
                   /\ f.video_error = Some("send_eof")
            /\ (f.had_ctx /\ f.env.send_eof_ok /\ ~f.env.drain_ok) =>
                   /\ SubSeq(f.steps, 1, n - 3) = <<"send_eof", "drain_packets">>
                   /\ f.video_error = Some("drain_packets")
            /\ (f.had_ctx /\ f.env.send_eof_ok /\ f.env.drain_ok) =>
                   /\ SubSeq(f.steps, 1, n - 3) = SubSeq(FinalizeSteps, 1, 3)
                   /\ f.video_error = IF f.env.trailer_ok THEN None
                                      ELSE Some("write_trailer")
            /\ (f.result = "Err") <=> (f.video_error # None)

\* Reached: a context was open, send_eof failed, drain and trailer were not
\* attempted, the three closing steps were, and finalize returned the error.
C29_Witness ==
    /\ enc_final # None
    /\ The(enc_final).had_ctx
    /\ ~The(enc_final).env.send_eof_ok
    /\ The(enc_final).steps = <<"send_eof", "drop_ctx", "finalize_and_mux_detached",
                                "set_live_video_encoder_label">>
    /\ The(enc_final).result = "Err"
    /\ enc_ctx = None
    /\ live_label = None

\* ---------------------------------------------------------------------------
\* C31  first_enabled_at_ms is written once
\* ---------------------------------------------------------------------------

\* The track's worker was spawned with initial_enabled.
EnabledAtStart(k) == a_config_enables(a_config, k)

\* The values of one worker's first-enable cells are those the worker can
\* have written: set together, and 0 for a track enabled at start.
FirstEnableConsistent ==
    \A k \in TrackKinds :
        a_captures[k] # None =>
            LET c == The(a_captures[k])
            IN  /\ c.ever_enabled <=> (c.first_enabled_at_ms # FIRST_ENABLE_UNSET)
                /\ EnabledAtStart(k) => c.first_enabled_at_ms = 0

\* One step of a worker that lives through it: ever_enabled does not go back
\* to false, a set first_enabled_at_ms stays, and an unset one is set only to
\* the elapsed time of a buffer processed while the track is enabled.
FirstEnableStep ==
    \A k \in TrackKinds :
        (a_captures[k] # None /\ a_captures'[k] # None) =>
            LET c == The(a_captures[k])
                n == The(a_captures'[k])
            IN  /\ c.ever_enabled => n.ever_enabled
                /\ c.first_enabled_at_ms # FIRST_ENABLE_UNSET =>
                       n.first_enabled_at_ms = c.first_enabled_at_ms
                /\ n.first_enabled_at_ms # c.first_enabled_at_ms =>
                       /\ c.enabled
                       /\ n.first_enabled_at_ms = a_elapsed
                       /\ a_buffers' = a_buffers + 1

\* C31: for every audio track, first_enabled_at_ms is written at most once:
\* it is 0 from the start for a track enabled at start, otherwise it goes
\* from unset to the elapsed time of the first buffer processed while the
\* track is enabled, and no later toggle or buffer changes it; ever_enabled
\* never goes back to false.
C31_FirstEnableWrittenOnce == [](FirstEnableConsistent) /\ [][FirstEnableStep]_vars

\* Reached: a track not enabled at start was enabled and stamped at 0 ms, and
\* after a later toggle to disabled and another buffer at 1 ms the stamp is
\* still 0.
C31_Witness ==
    \E k \in TrackKinds :
        /\ ~EnabledAtStart(k)
        /\ a_captures[k] # None
        /\ The(a_captures[k]).first_enabled_at_ms = 0
        /\ The(a_captures[k]).ever_enabled
        /\ ~The(a_captures[k]).enabled
        /\ a_elapsed = 1
        /\ Len(The(a_captures[k]).wav) = 2
        /\ The(a_captures[k]).wav[2].what = "silence"

\* ---------------------------------------------------------------------------
\* C32  bytes written per captured buffer
\* ---------------------------------------------------------------------------

BufferSizes == {0, BufferBytes}

\* What process_buffer appended to the WAV of a worker.
Appended(before, after) == SubSeq(after.wav, Len(before.wav) + 1, Len(after.wav))

\* The next buffer of every live worker, whatever its size and flags: nothing
\* is written while the track was never enabled; otherwise its N bytes are
\* appended, as zeros when the track is disabled, the buffer silent or its
\* pointer null, as the samples otherwise.
NextBufferWritten ==
    \A k \in TrackKinds, bytes \in BufferSizes, silent \in BOOLEAN, null_ptr \in BOOLEAN :
        a_captures[k] # None =>
            LET c == The(a_captures[k])
                n == process_buffer(c, a_elapsed, bytes, silent, null_ptr)
                never_enabled == ~(a_config_enables(a_config, k) \/ a_heard[k] \/ c.enabled)
                zeros == ~c.enabled \/ silent \/ null_ptr
            IN  /\ never_enabled => n.wav = c.wav
                /\ ~never_enabled =>
                       /\ written_audio_bytes(n.wav) = written_audio_bytes(c.wav) + bytes
                       /\ bytes > 0 =>
                              Appended(c, n) =
                                  <<[what |-> IF zeros THEN "silence" ELSE "samples",
                                     len |-> bytes]>>

\* C32: for every captured buffer of N bytes, nothing is written if the track
\* has never been enabled; otherwise exactly N bytes are appended to the WAV,
\* zeros when the track is disabled, the buffer silent or its pointer null,
\* the samples otherwise; so the written audio length equals the total length
\* of the buffers captured from the first enable on.
C32_BufferBytesWritten ==
    /\ NextBufferWritten
    /\ \A k \in TrackKinds :
           a_captures[k] # None =>
               written_audio_bytes(The(a_captures[k]).wav) = a_captured[k]

\* Reached: a track not enabled at start had a buffer dropped while it had
\* never been enabled, was enabled, had a buffer written as samples and,
\* disabled again, would have the next written as zeros.
C32_Witness ==
    \E k \in TrackKinds :
        /\ ~a_config_enables(a_config, k)
        /\ a_captures[k] # None
        /\ a_buffers = 2
        /\ a_captured[k] = BufferBytes
        /\ The(a_captures[k]).wav = <<[what |-> "samples", len |-> BufferBytes]>>
        /\ ~The(a_captures[k]).enabled

\* ---------------------------------------------------------------------------
\* C33  the order of on_frame_arrived: paused, admission gate, frame
\* ---------------------------------------------------------------------------

\* One step of the producer on the surface it was handed.
SurfaceStep ==
    \* a surface delivered while paused is discarded and nothing else happens
    /\ discarded' # discarded =>
           /\ paused
           /\ discarded' = discarded + 1
           /\ UNCHANGED <<surfaces, p_pc, p_observed, p_send, p_fatal, frame_counter,
                          dropped_frames, queued, chan, enqueued, refused>>
    \* any other surface goes to the admission gate first
    /\ surfaces' # surfaces =>
           /\ ~paused
           /\ p_pc' = "gate_error"
           /\ UNCHANGED <<frame_counter, dropped_frames, queued, chan, enqueued>>
    \* the gate's error is fatal to the capture
    /\ (p_pc = "gate_error" /\ p_pc' # p_pc) =>
           IF worker_error # <<>>
           THEN /\ p_pc' = "halted"
                /\ p_fatal' = Fatal("backpressure", worker_error)
                /\ UNCHANGED <<frame_counter, dropped_frames, queued, chan, enqueued>>
           ELSE p_pc' = "gate_load"
    \* the frame is built and on_frame_arrived called only after the gate
    \* answered true
    /\ (p_pc' = "arrive_error" /\ p_pc # "arrive_error") =>
           /\ p_pc = "gate_load"
           /\ should_accept_frame(queued)
    /\ (p_fatal' # p_fatal /\ p_fatal' = Fatal("capture", <<"frame">>)) =>
           p_pc = "arrive_error"
    \* the gate answered false: on_frame_dropped once, then the next surface
    /\ (p_pc = "gate_load" /\ p_pc' # p_pc /\ ~should_accept_frame(queued)) =>
           /\ p_pc' = "dropping"
           /\ p_send = "none"
           /\ UNCHANGED <<frame_counter, dropped_frames, queued, chan, enqueued>>
    /\ (p_pc = "dropping" /\ p_send = "none" /\ p_pc' # p_pc) =>
           /\ dropped_frames' = dropped_frames + 1
           /\ p_pc' = "idle"
           /\ UNCHANGED <<frame_counter, queued, chan, enqueued>>

\* C33: for every surface delivered to the producer, in this order: while
\* the paused flag is set the surface is discarded with no call of
\* should_accept_frame, on_frame_dropped or on_frame_arrived and no change of
\* the frame or dropped counters; otherwise the admission gate is consulted
\* before any texture clone or CPU copy, an admission error aborts the
\* capture as fatal, and an admission result of false calls on_frame_dropped
\* exactly once and never on_frame_arrived.
C33_PausedThenGateThenFrame == [][SurfaceStep]_vars

\* Reached: a surface was discarded while the capture was paused, a later one
\* was admitted and counted, and the gate's error on the next one ended the
\* capture.
C33_Witness ==
    /\ discarded >= 1
    /\ frame_counter >= 1
    /\ p_pc = "halted"
    /\ p_fatal # None
    /\ The(p_fatal).stage = "backpressure"
    /\ dropped_frames = 0

\* ---------------------------------------------------------------------------
\* C34  one close path of the encoder
\* ---------------------------------------------------------------------------

\* The ways the worker's loop ends once the consumer was constructed.
LoopExits == {"stop", "encode_failed", "disconnected"}

\* C34: for every worker whose encoder consumer was constructed, on_stop
\* (finalize) runs exactly once whether the loop ends by the Stop sentinel,
\* by an encoding error or by channel disconnect, never before the loop has
\* ended and never when the consumer was not constructed; the detached audio
\* finalize is spawned by that one call only.
C34_OneClosePath ==
    /\ on_stop_calls \in {0, 1}
    /\ w_pc = "done" => (w_exit \in LoopExits \cup {"new_failed"})
    /\ (w_pc = "done" /\ w_exit \in LoopExits) => on_stop_calls = 1
    /\ w_exit = "new_failed" => on_stop_calls = 0
    /\ w_pc # "done" => on_stop_calls = 0
    /\ (audio_finalize = "spawned") <=> (on_stop_calls = 1)

\* Reached: frames were encoded, one failed, the loop ended on that error and
\* on_stop ran once.
C34_Witness ==
    /\ w_pc = "done"
    /\ w_exit = "encode_failed"
    /\ Len(encoded) >= 2
    /\ on_stop_calls = 1
    /\ audio_finalize = "spawned"

\* ---------------------------------------------------------------------------
\* C35  stopping completes
\* ---------------------------------------------------------------------------

\* C35: assuming each encoder call returns, on_session_finished (send the
\* Stop sentinel, join the worker) terminates in every state: once the
\* capture thread has ended and the handle is stopped, the Stop message gets
\* into the channel, the worker ends and the callback returns, whether the
\* channel was full, the worker blocked on receive, busy encoding or already
\* gone after an error.
C35_StopCompletes ==
    (h_pc = "held" /\ control_joined(p_pc)) ~>
        (h_pc = "consumed" /\ f_pc = "done" /\ w_pc = "done")

\* Reached: the callback has sent Stop behind five waiting frames, which
\* fills the channel, while the worker is busy with an earlier frame; the
\* callback waits in join.
C35_Witness ==
    /\ h_pc = "finalize"
    /\ f_pc = "join"
    /\ Len(chan) = VIDEO_PIPELINE_QUEUE_CAPACITY
    /\ chan[Len(chan)] = StopMessage
    /\ w_pc = "encode"

\* ---------------------------------------------------------------------------
\* C36  the queued counter covers the channel
\* ---------------------------------------------------------------------------

\* The counter covers the frames waiting in the channel, a decrement that is
\* about to run finds it above 0, and no try_send was refused as Full.
QueuedCoversChannel ==
    /\ queued >= Len(ChanFrames)
    /\ w_pc = "decrement" => queued > 0
    /\ (p_pc = "send_result" /\ p_send # "Ok") => queued > 0
    /\ p_send # "Full"
    /\ p_pc \in {"arrive_error", "arrive_add", "arrive_send"} =>
           should_accept_frame(p_observed)

\* Every decrement takes exactly one off, and the dropped counter moves only
\* in on_frame_dropped after the gate refused the surface.
QueuedStep ==
    /\ queued' < queued =>
           /\ queued' = queued - 1
           /\ decrement_queued_frames(queued) = queued - 1
    /\ dropped_frames' # dropped_frames =>
           /\ dropped_frames' = dropped_frames + 1
           /\ p_pc = "dropping"
           /\ p_send = "none"
           /\ ~should_accept_frame(p_observed)

\* C36: in every reachable state the queued counter is at least the number
\* of frames waiting in the channel and its saturating decrement never has
\* to clamp at 0; so a frame admitted with queued < 6 is never refused by
\* try_send as Full, and the dropped counter is only ever incremented through
\* the admission gate's on_frame_dropped.
C36_QueuedCoversChannel == []QueuedCoversChannel /\ [][QueuedStep]_vars

\* Reached: a frame admitted at queued = 5 was sent into the channel's last
\* free place.
C36_Witness ==
    /\ p_pc = "send_result"
    /\ p_send = "Ok"
    /\ p_observed = VIDEO_PIPELINE_QUEUE_CAPACITY - 1
    /\ Len(ChanFrames) = VIDEO_PIPELINE_QUEUE_CAPACITY
    /\ queued = VIDEO_PIPELINE_QUEUE_CAPACITY

\* ---------------------------------------------------------------------------
\* C37  the controller slot across sessions
\* ---------------------------------------------------------------------------

\* C37 as stated: while a session's audio service is started and not yet
\* finalized, the controller slot holds that session's enable flags; the
\* detached finalize of an earlier session never clears or replaces the
\* controller the later session published.
C37_SlotHoldsStartedService ==
    \A i \in Services :
        sv_pc[i] = "started" =>
            live_slot = Some(LiveAudioController(i, sv_tracks[i]))

\* ---------------------------------------------------------------------------
\* C38  manager.stop() when the runtime's stop() fails
\* ---------------------------------------------------------------------------

\* stop() would call the runtime's stop(): after the finished-runtime check
\* the session is Running or Paused and still holds its runtime.
StopCallsRuntime ==
    LET f == finalize_finished_runtime_if_any(active_session, handles)
    IN  f.session # None /\ can_stop(The(f.session).state) /\ The(f.session).runtime # None

\* What stop() leaves when the runtime's stop() fails, and what the next
\* stop() or valid start() does with it.
FailedStopOutcome ==
    LET o == stop(active_session, handles, "RuntimeError")
        s == The(o.session)
        again == [res \in RuntimeResults |-> stop(o.session, o.handles, res)]
        restart == start(o.session, o.handles, BaseConfig, BaseEnv, sessions_created + 1)
    IN  /\ o.result = [kind |-> "RuntimeError"]
        /\ o.session # None
        /\ s.sid = The(active_session).sid
        /\ s.state = "Stopped"
        /\ s.last_error = Some("RuntimeError")
        /\ s.runtime = None
        /\ s.last_resume_at = None
        /\ s.elapsed_before_pause_ms = elapsed_ms(The(active_session), now)
        /\ \A t \in now..MaxTime : elapsed_ms(s, t) = s.elapsed_before_pause_ms
        /\ \A r \in HandleIds : o.handles[r].status # "live"
        /\ \A res \in RuntimeResults :
               /\ again[res].result = Ok
               /\ again[res].session = None
               /\ again[res].handles = o.handles
        /\ restart.result = Ok
        /\ restart.built
        /\ restart.session # None
        /\ The(restart.session).sid # s.sid
        /\ The(restart.session).state = "Running"
        /\ The(restart.session).last_error = None

\* C38: if the runtime's stop() fails during manager.stop(), the error is
\* returned and the session is kept in state Stopped with last_error set to
\* that error, its elapsed time accumulated and no runtime handle; snapshot()
\* then reports Stopped with the error, and a following stop(), or start()
\* with a valid configuration, succeeds and clears that session.
C38_FailedStopKeepsStoppedSession ==
    /\ StopCallsRuntime => FailedStopOutcome
    /\ (last_op.op \in {"stop", "cancel"} /\ last_op.result.kind = "RuntimeError") =>
           /\ snapshot.state = "Stopped"
           /\ snapshot.last_error = Some("RuntimeError")
           /\ snapshot.elapsed_ms = The(active_session).elapsed_before_pause_ms
           /\ ~is_active

\* Reached: stop() returned the runtime's error after the session had run for
\* some time; the snapshot reports Stopped with the error and the time.
C38_Witness ==
    /\ last_op.op = "stop"
    /\ last_op.result.kind = "RuntimeError"
    /\ snapshot.state = "Stopped"
    /\ snapshot.last_error = Some("RuntimeError")
    /\ snapshot.elapsed_ms >= 1
    /\ The(active_session).runtime = None

\* ---------------------------------------------------------------------------
\* C40  what a failed start() leaves
\* ---------------------------------------------------------------------------

\* start() returned an error (a panic of the validation is not a return).
StartFailed(o) == o.result.kind \notin {"Ok", "Panic"}

\* The held session is Running or Paused and its runtime has not finished.
LiveSession ==
    /\ active_session # None
    /\ The(active_session).state \in {"Running", "Paused"}
    /\ ~runtime_finished(The(active_session), handles)

\* C40 as stated: a start() that returns an error leaves the manager exactly
\* as it was before the call, a Stopped session and its last_error included.
C40_FailedStartChangesNothing ==
    \A in \in StartInputs :
        LET o == start(active_session, handles, in[1], in[2], sessions_created + 1)
        IN  StartFailed(o) => (o.session = active_session /\ o.handles = handles)

\* C40 (amended): a start() that returns an error leaves a Running or Paused
\* session whose runtime has not finished exactly as it was (the error is
\* 'a recording is already in progress'), and leaves an Idle manager Idle;
\* a held Stopped session, and a session whose runtime had finished (which
\* the call first finalizes, consuming its handle by wait()), is discarded
\* with its last_error before the configuration is looked at, so after any
\* other failed start the manager holds no session.
C40_FailedStartKeepsOnlyLiveSession ==
    \A in \in StartInputs :
        LET o == start(active_session, handles, in[1], in[2], sessions_created + 1)
            f == finalize_finished_runtime_if_any(active_session, handles)
        IN  /\ LiveSession =>
                   /\ o.result = [kind |-> "YaExisteGrabacion"]
                   /\ o.session = active_session
                   /\ o.handles = handles
                   /\ ~o.built
            /\ (StartFailed(o) /\ ~LiveSession) =>
                   /\ o.result.kind # "YaExisteGrabacion"
                   /\ o.session = None
                   /\ o.handles = f.handles
                   /\ \A r \in HandleIds : o.handles[r].status # "live"

\* Reached: the manager holds a Stopped session with the error of its
\* runtime, and a start() with fps 0 returns the fps error and leaves no
\* session.
C40_Witness ==
    /\ active_session # None
    /\ The(active_session).state = "Stopped"
    /\ The(active_session).last_error = Some("RuntimeError")
    /\ LET o == start(active_session, handles, [BaseConfig EXCEPT !.fps = 0], BaseEnv,
                      sessions_created + 1)
       IN  /\ o.result.kind = "FpsInvalido"
           /\ o.session = None

\* ---------------------------------------------------------------------------
\* C39  the file at the final output path
\* ---------------------------------------------------------------------------

\* The recording the encoder wrote lies somewhere on disk.
VideoWritten == \E p \in Paths : a_files[p] \in {"video", "muxed", "partial"}

\* C39: for every session whose encoder wrote a video container, once the
\* detached finalize has completed a file exists at the final output path,
\* also when the audio service failed to start and when no track qualifies.
C39_FinalFileAfterFinalize ==
    (a_pc = "done" /\ a_result # None /\ VideoWritten) => exists(a_files, "final")

====
